---- MODULE Spec2Model ----
(***************************************************************************)
(* Flight-dynamics core of wsflight: the Aircraft integrator with its      *)
(* PropellerEngine / AerodynamicsModel / PhysicsEnvironment components     *)
(* (src/src/physics), the PhysicsEngine (src/unnamed/part_000) and the     *)
(* AutopilotController with its PID loops (src/src/main.ts).               *)
(*                                                                         *)
(* Numbers.  The source computes in IEEE doubles; the model computes in    *)
(* fixed point with three decimals: a quantity q is the integer q * 1000   *)
(* (metres -> mm, radians -> mrad, degrees -> millidegrees, newtons ->     *)
(* mN, seconds of Date/performance time -> ms).  Products and quotients    *)
(* truncate toward zero.  A time step dt is the rational dt.n / dt.d       *)
(* seconds, so that 1/60 is exact.  Math.sin/cos/atan2/sqrt are computed   *)
(* by closed-form approximations that are exact at the multiples of pi/2   *)
(* the code relies on.                                                     *)
(***************************************************************************)
EXTENDS Integers, Sequences, FiniteSets, TLC

(***************************************************************************)
(* Fixed-point arithmetic                                                  *)
(***************************************************************************)
S == 1000

Abs(a) == IF a < 0 THEN -a ELSE a

Sgn(a) == IF a < 0 THEN -1 ELSE 1

Min(a, b) == IF a < b THEN a ELSE b

Max(a, b) == IF a > b THEN a ELSE b

\* a / b, truncated toward zero (b # 0)
TDiv(a, b) == Sgn(a) * Sgn(b) * (Abs(a) \div Abs(b))

\* a * n / d without leaving 32 bits in the intermediate product
MulDiv(a, n, d) ==
    LET hi == Max(Abs(a), Abs(n))
        lo == Min(Abs(a), Abs(n))
        ad == Abs(d)
    IN  Sgn(a) * Sgn(n) * Sgn(d) * ((hi \div ad) * lo + ((hi % ad) * lo) \div ad)

\* product of two fixed-point numbers
FMul(a, b) == MulDiv(a, b, S)

\* quotient of two fixed-point numbers (b # 0)
FDiv(a, b) == MulDiv(a, S, b)

\* x * dt and x / dt for a time step dt = dt.n / dt.d seconds
MulDt(x, dt) == MulDiv(x, dt.n, dt.d)

DivDt(x, dt) == MulDiv(x, dt.d, dt.n)

\* Math.max(lo, Math.min(hi, x))
Clamp(lo, hi, x) == Max(lo, Min(hi, x))

RECURSIVE ISqrtBetween(_, _, _)
ISqrtBetween(n, lo, hi) ==
    IF lo >= hi THEN lo
    ELSE LET mid == (lo + hi + 1) \div 2
         IN  IF mid * mid <= n THEN ISqrtBetween(n, mid, hi)
             ELSE ISqrtBetween(n, lo, mid - 1)

\* floor of the square root of a natural number
ISqrt(n) == ISqrtBetween(n, 0, 46340)

\* Math.sqrt of a non-negative fixed-point number
Sqrt(x) ==
    IF x < 2000000 THEN ISqrt(x * S)
    ELSE IF x < 200000000 THEN ISqrt(x * 10) * 10
    ELSE ISqrt(x \div 10) * 100

Pi == 3142

TwoPi == 6283

HalfPi == 1571

\* sine of an angle in [0, Pi] mrad (Bhaskara's rational approximation)
SinHalfTurn(x) ==
    LET p == x * (Pi - x)
    IN  IF p <= 0 THEN 0 ELSE (16 * p) \div ((5 * Pi * Pi - 4 * p) \div S)

\* Math.sin
Sin(a) ==
    LET r == Abs(a) % TwoPi
        h == IF r <= Pi THEN SinHalfTurn(r) ELSE -SinHalfTurn(Min(r - Pi, Pi))
    IN  Sgn(a) * h

\* Math.cos
Cos(a) == Sin(Abs(a) + HalfPi)

\* arctangent of a ratio t in [0, 1]
AtanUnit(t) == MulDiv(t, 785, S) + MulDiv(273, FMul(t, S - t), S)

\* Math.atan2(y, x); atan2(0, 0) = 0
Atan2(y, x) ==
    LET ay == Abs(y)
        ax == Abs(x)
        first == IF ax = 0 /\ ay = 0 THEN 0
                 ELSE IF ay <= ax THEN AtanUnit(FDiv(ay, ax))
                 ELSE HalfPi - AtanUnit(FDiv(ax, ay))
        upper == IF x >= 0 THEN first ELSE Pi - first
    IN  IF y >= 0 THEN upper ELSE -upper

\* Math.acos of a cosine in [-1, 1]
Acos(c) == Atan2(Sqrt(Max(0, S - FMul(c, c))), c)

\* Math.exp(-x) for x >= 0
ExpNeg(x) ==
    LET x2 == FMul(x, x)
        x3 == FMul(x2, x)
    IN  IF x > 8000 THEN 0
        ELSE FDiv(S, S + x + x2 \div 2 + x3 \div 6)

(***************************************************************************)
(* Vectors                                                                 *)
(***************************************************************************)
Vec(x, y, z) == [x |-> x, y |-> y, z |-> z]

ZeroVec == Vec(0, 0, 0)

ZeroAttitude == [pitch |-> 0, roll |-> 0, yaw |-> 0]

VecAdd(u, v) == Vec(u.x + v.x, u.y + v.y, u.z + v.z)


\* multiplyScalar: v scaled by k
VecScale(v, k) == Vec(FMul(v.x, k), FMul(v.y, k), FMul(v.z, k))

\* divideScalar: v divided by d (d # 0)
VecDivide(v, d) == Vec(FDiv(v.x, d), FDiv(v.y, d), FDiv(v.z, d))

\* v * deltaTime
VecMulDt(v, dt) == Vec(MulDt(v.x, dt), MulDt(v.y, dt), MulDt(v.z, dt))

\* crossVectors
VecCross(u, v) ==
    Vec(FMul(u.y, v.z) - FMul(u.z, v.y),
        FMul(u.z, v.x) - FMul(u.x, v.z),
        FMul(u.x, v.y) - FMul(u.y, v.x))

\* dot
VecDot(u, v) == FMul(u.x, v.x) + FMul(u.y, v.y) + FMul(u.z, v.z)

\* Math.sqrt(v.x * v.x + v.y * v.y + v.z * v.z)
VecLen(v) ==
    LET m == Max(Abs(v.x), Max(Abs(v.y), Abs(v.z)))
        q == m \div 26000 + 1
        x == v.x \div q
        y == v.y \div q
        z == v.z \div q
    IN  q * ISqrt(x * x + y * y + z * z)


\* THREE.Vector3.normalize: divideScalar(length() || 1)
VecNormalize(v) ==
    LET Normalized(len) == IF len = 0 THEN v ELSE VecDivide(v, len)
    IN  Normalized(VecLen(v))

\* v.x * v.x + v.y * v.y + v.z * v.z
VecSquared(v) == FMul(v.x, v.x) + FMul(v.y, v.y) + FMul(v.z, v.z)

\* v scaled to the magnitude mag, given its length len (len > 0)
VecScaleTo(v, mag, len) ==
    Vec(FMul(mag, FDiv(v.x, len)), FMul(mag, FDiv(v.y, len)), FMul(mag, FDiv(v.z, len)))

\* rotateVectorXY: rotation about the z axis
rotateVectorXY(v, angle) ==
    LET c == Cos(angle)
        s == Sin(angle)
    IN  Vec(FMul(v.x, c) - FMul(v.y, s), FMul(v.x, s) + FMul(v.y, c), v.z)

\* rotateVectorZY: rotation about the x axis
rotateVectorZY(v, angle) ==
    LET c == Cos(angle)
        s == Sin(angle)
    IN  Vec(v.x, FMul(v.z, s) + FMul(v.y, c), FMul(v.z, c) - FMul(v.y, s))

(***************************************************************************)
(* PhysicsEnvironment                                                      *)
(***************************************************************************)
rhoTab == <<1225, 819, 530, 300, 153, 85>>

\* getAirDensity with the last segment's lower value returned above the
\* table, as getMachOne returns machTab[4]
getAirDensityFlatTop(altitude) ==
    LET a == altitude \div 4000000
    IN  IF a < 0 THEN rhoTab[1]
        ELSE IF a > 4 THEN rhoTab[5]
        ELSE LET base == rhoTab[a + 1]
                 diff == rhoTab[a + 2] - rhoTab[a + 1]
                 t == (altitude - 4000000 * a) \div 4000
             IN  base + FMul(diff, t)

\* PhysicsEnvironment.getAirDensity(altitude); the table is indexed from 1
getAirDensity(altitude) ==
    LET a == altitude \div 4000000
    IN  IF a < 0 THEN rhoTab[1]
        ELSE IF a > 4 THEN rhoTab[6]
        ELSE LET base == rhoTab[a + 1]
                 diff == rhoTab[a + 2] - rhoTab[a + 1]
                 \* (altitude - 4000.0 * a) / 4000.0, in thousandths
                 t == (altitude - 4000000 * a) \div 4000
             IN  base + FMul(diff, t)

\* PhysicsEnvironment.getGravity()
getGravity == 9810

(***************************************************************************)
(* AerodynamicsModel                                                       *)
(***************************************************************************)
\* Aircraft.constructor: defaultAerodynamics
defaultAerodynamics ==
    [wingArea |-> 16200, aspectRatio |-> 7320, dragCoefficient |-> 27,
     liftSlopeCurve |-> 6280, zeroLiftAoA |-> -35,
     stallAngleHigh |-> 262, stallAngleLow |-> -209]

\* AerodynamicsModel.getLiftCoefficient
getLiftCoefficient(props, angleOfAttack) ==
    LET normalLift == FMul(props.liftSlopeCurve, angleOfAttack - props.zeroLiftAoA)
        flatPlate == 2 * FMul(Cos(angleOfAttack), Pi)
        Stalled(stallExcess) ==
            LET stallFactor == ExpNeg(5 * stallExcess)
            IN  FMul(normalLift, stallFactor) + FMul(S - stallFactor, flatPlate)
    IN  IF angleOfAttack > props.stallAngleHigh
            THEN Stalled(angleOfAttack - props.stallAngleHigh)
        ELSE IF angleOfAttack < props.stallAngleLow
            THEN Stalled(props.stallAngleLow - angleOfAttack)
        ELSE normalLift

\* AerodynamicsModel.getDragCoefficient
getDragCoefficient(props, liftCoefficient) ==
    props.dragCoefficient
        + FDiv(FMul(liftCoefficient, liftCoefficient),
               FMul(FMul(Pi, props.aspectRatio), 850))

\* a velocity test that never takes the aircraft as standing in the air
velocityNegligibleNever(velocityMagnitude) == FALSE

\* AerodynamicsModel.calculateForces: velocityMagnitude < 0.001
velocityNegligible(velocityMagnitude) == velocityMagnitude < 1

\* AerodynamicsModel.calculateForces
aeroCalculateForces(props, velocity, attitude, controls, airDensity) ==
    LET moments == [pitch |-> controls.elevator,
                    roll |-> controls.aileron,
                    yaw |-> controls.rudder \div 2]
        forwardVector ==
            Vec(FMul(Cos(attitude.yaw), Cos(attitude.pitch)),
                Sin(attitude.pitch),
                FMul(Sin(attitude.yaw), Cos(attitude.pitch)))
        Scaled(normalizedVelocity, liftDirection, liftMagnitude, dragMagnitude) ==
            [lift |-> VecScale(liftDirection, liftMagnitude),
             drag |-> VecScale(normalizedVelocity, -dragMagnitude),
             moments |-> moments]
        Directed(rawDirection, liftDirectionMagnitude) ==
            IF liftDirectionMagnitude > 1
            THEN VecDivide(rawDirection, liftDirectionMagnitude)
            ELSE rawDirection
        LiftDirection(rawDirection) == Directed(rawDirection, VecLen(rawDirection))
        WithCoefficients(dynamicPressure, normalizedVelocity, liftCoefficient) ==
            Scaled(normalizedVelocity,
                   LiftDirection(Vec(normalizedVelocity.z, 0, -normalizedVelocity.x)),
                   FMul(FMul(dynamicPressure, props.wingArea), liftCoefficient),
                   FMul(FMul(dynamicPressure, props.wingArea),
                        getDragCoefficient(props, liftCoefficient)))
        WithVelocity(velocityMagnitude, normalizedVelocity) ==
            WithCoefficients(
                FMul(FMul(airDensity, velocityMagnitude), velocityMagnitude) \div 2,
                normalizedVelocity,
                getLiftCoefficient(
                    props,
                    Acos(Clamp(-S, S, VecDot(forwardVector, normalizedVelocity)))))
        Moving(velocityMagnitude) ==
            IF velocityNegligible(velocityMagnitude)
            THEN [lift |-> ZeroVec, drag |-> ZeroVec, moments |-> ZeroAttitude]
            ELSE WithVelocity(velocityMagnitude,
                              VecDivide(velocity, velocityMagnitude))
    IN  Moving(VecLen(velocity))

(***************************************************************************)
(* PropellerEngine                                                         *)
(***************************************************************************)
\* value of an optional field of EngineCharacteristics that is absent
Undefined == -999999999

\* value of propellerBlades when the record carries no blade array
NoArray == -1

\* the result of Math.sqrt for a negative number
NaN == -99999999

\* sign * Math.sqrt(2.0 * energy / totalMomentOfInertia)
rateFromEnergy(sign, energy, totalMomentOfInertia) ==
    IF FDiv(2 * energy, totalMomentOfInertia) < 0 THEN NaN
    ELSE sign * Sqrt(FDiv(2 * energy, totalMomentOfInertia))

\* the rate taken from the energy whatever its sign
energyToRatePlain(sign, newEnergy, totalMomentOfInertia) ==
    rateFromEnergy(sign, newEnergy, totalMomentOfInertia)

\* calculateBladeForcesAndTorque: the new rate from the new kinetic energy
energyToRate(sign, newEnergy, totalMomentOfInertia) ==
    IF newEnergy >= 0 THEN rateFromEnergy(sign, newEnergy, totalMomentOfInertia)
    ELSE rateFromEnergy(-sign, Abs(newEnergy), totalMomentOfInertia)

\* PropellerEngine.initializePropellerBlades: blade i of the two (i = 0, 1)
NewBlade(i) ==
    [area |-> 250, kCl |-> 4011, ClZero |-> 350, kCd |-> 1119, CdMin |-> 12,
     minCdAOA |-> -87, minPitch |-> 87, maxPitch |-> 785, kGoverner |-> 50,
     gravityCenter |-> 600, liftCenter |-> 600, weight |-> 10000,
     clockwise |-> TRUE,
     state |-> [angle |-> Pi * i, pitch |-> 314],
     lift |-> ZeroVec, drag |-> ZeroVec, torque |-> 0, aoa |-> 0]

initializePropellerBlades == <<NewBlade(0), NewBlade(1)>>

\* blade loop body of calculateBladeForcesAndTorque: the blade after the
\* loop has handled it
BladeForces(blade, radianPerSec, airDensity, relVelInPropCoord) ==
    LET omega == IF radianPerSec = Undefined THEN 0 ELSE radianPerSec
        propSpeed == FMul(blade.liftCenter, omega)
        directionOfRotation == IF blade.clockwise THEN -1 ELSE 1
        bladeDirection == IF blade.clockwise THEN -1 ELSE 1
        Cl(aoa) == FMul(blade.kCl, aoa) + blade.ClZero
        Cd(aoa) == FMul(blade.kCd, FMul(aoa - blade.minCdAOA, aoa - blade.minCdAOA))
                       + blade.CdMin
        torqueZ(angle, lift, drag) ==
            FMul(FMul(blade.liftCenter, Cos(angle)), lift.y + drag.y)
                - FMul(FMul(blade.liftCenter, Sin(angle)), lift.x + drag.x)
        Handled(angle, aoa, lift, drag) ==
            [blade EXCEPT !.state.angle = angle, !.aoa = aoa, !.lift = lift,
                          !.drag = drag,
                          !.torque = torqueZ(angle, lift, drag) * bladeDirection]
        Drag(totalVel, dragMagnitude, totalVelMagnitude) ==
            IF totalVelMagnitude > 1
            THEN VecScaleTo(totalVel, -dragMagnitude, totalVelMagnitude)
            ELSE ZeroVec
        Lift(liftDir, liftMagnitude, liftMag) ==
            IF liftMag > 1 THEN VecScaleTo(liftDir, liftMagnitude, liftMag)
            ELSE ZeroVec
        LiftAlong(liftDir, liftMagnitude) ==
            Lift(liftDir, liftMagnitude, VecLen(liftDir))
        Loaded(angle, totalVel, relVelBlade, aoa, vSquared) ==
            Handled(angle, aoa,
                    LiftAlong(rotateVectorXY(rotateVectorZY(relVelBlade, HalfPi),
                                             angle),
                              FMul(FMul(FMul(Cl(aoa), airDensity), vSquared),
                                   blade.area) \div 2),
                    Drag(totalVel,
                         FMul(FMul(FMul(Cd(aoa), airDensity), vSquared),
                              blade.area) \div 2,
                         VecLen(relVelBlade)))
        Relative(angle, totalVel, relVelBlade) ==
            Loaded(angle, totalVel, relVelBlade,
                   blade.state.pitch - Atan2(relVelBlade.z, -relVelBlade.y),
                   VecSquared(relVelBlade))
        Turning(angle, totalVel) ==
            Relative(angle, totalVel, rotateVectorXY(totalVel, -angle))
        Normalized(angle) ==
            Turning(angle,
                    VecAdd(rotateVectorXY(Vec(0, propSpeed * directionOfRotation, 0),
                                          angle),
                           relVelInPropCoord))
    IN  Normalized(IF blade.state.angle > TwoPi THEN blade.state.angle - TwoPi
                   ELSE IF blade.state.angle < 0 THEN blade.state.angle + TwoPi
                   ELSE blade.state.angle)

RECURSIVE SumOver(_, _, _)
\* sum of f[k] for k in 1..n
SumOver(f, n, acc) == IF n = 0 THEN acc ELSE SumOver(f, n - 1, acc + f[n])

\* calculateBladeForcesAndTorque: totalMomentOfInertia after the blade loop
bladeInertia(blades) ==
    SumOver([k \in 1..Len(blades) |->
                FMul(FMul(blades[k].weight, blades[k].gravityCenter),
                     blades[k].gravityCenter)],
            Len(blades), 0)

\* totalMomentOfInertia < 0.000001, which lies below the resolution
inertiaNegligible(inertiaSum) == inertiaSum < 1

\* the sum of the blades taken as the divisor as it is
inertiaDivisorAsSummed(inertiaSum) == inertiaSum

\* calculateBladeForcesAndTorque: the totalMomentOfInertia the torque and the
\* energy are divided by
inertiaDivisor(inertiaSum) ==
    IF inertiaNegligible(inertiaSum) THEN S ELSE inertiaSum

\* PropellerEngine.calculateBladeForcesAndTorque
calculateBladeForcesAndTorque(ch, blades, deltaTime, airDensity, relVel) ==
    IF Len(blades) = 0 THEN [ch |-> ch, blades |-> blades]
    ELSE
    LET omega0 == IF ch.radianPerSec = Undefined THEN 0 ELSE ch.radianPerSec
        rpm == Abs(MulDiv(omega0, 30000, Pi))
        engineBrakeRpm0 ==
            ch.engineBrakeZeroThrottleRpm
                + FMul(ch.engineBrakeMaxThrottleRpm - ch.engineBrakeZeroThrottleRpm,
                       ch.throttle)
        engineBrakeTorque == FMul(ch.engineBrakeTorquePerRpm, rpm - engineBrakeRpm0)
        airDensityBias == FDiv(airDensity, 1225)
        joulePerSec ==
            FMul(FMul(ch.idlePowerJoulesPerSec, S - ch.throttle)
                     + FMul(ch.maxPowerJoulesPerSec, ch.throttle),
                 airDensityBias)
        \* the angles advance by the new rate
        Advanced(handled, radianPerSec) ==
            [ch |-> [ch EXCEPT !.radianPerSec = radianPerSec],
             blades |-> [k \in 1..Len(blades) |->
                            [handled[k] EXCEPT
                                !.state.angle = @ + MulDt(radianPerSec, deltaTime)]]]
        Energized(accelerated, totalMomentOfInertia, sign) ==
            energyToRate(sign,
                         FMul(totalMomentOfInertia, FMul(accelerated, accelerated))
                                 \div 2
                             + sign * MulDt(joulePerSec, deltaTime),
                         totalMomentOfInertia)
        Rate(accelerated, totalMomentOfInertia) ==
            IF ch.radianPerSec = Undefined THEN 0
            ELSE IF ch.maxPowerJoulesPerSec # Undefined
                    /\ ch.idlePowerJoulesPerSec # Undefined
                 THEN Energized(accelerated, totalMomentOfInertia,
                                IF accelerated > 0 THEN 1 ELSE -1)
                 ELSE accelerated
        Accelerated(handled, totalTorque, totalMomentOfInertia) ==
            Advanced(handled,
                     Rate(ch.radianPerSec
                              + MulDt(FDiv(totalTorque, totalMomentOfInertia),
                                      deltaTime),
                          totalMomentOfInertia))
        Braked(bladeTorque) ==
            IF ch.engineBrakeTorquePerRpm > 0 /\ engineBrakeRpm0 < rpm
            THEN IF omega0 > 0 THEN bladeTorque - engineBrakeTorque
                 ELSE bladeTorque + engineBrakeTorque
            ELSE bladeTorque
        Summed(handled, torqueSum, inertiaSum) ==
            Accelerated(handled,
                        Braked(IF inertiaNegligible(inertiaSum) THEN 0
                               ELSE torqueSum),
                        inertiaDivisor(inertiaSum))
        Looped(handled) ==
            Summed(handled,
                   SumOver([k \in 1..Len(blades) |-> handled[k].torque],
                           Len(blades), 0),
                   bladeInertia(handled))
    IN  Looped([k \in 1..Len(blades) |->
                   BladeForces(blades[k], ch.radianPerSec, airDensity, relVel)])

\* a governor that leaves the adjusted pitch as it is
controlPropellerPitchFree(ch, blades, deltaTime) ==
    IF \/ Len(blades) = 0
       \/ ch.propLeverPosition = Undefined
       \/ ch.ctlRadianPerSecMin = Undefined
       \/ ch.ctlRadianPerSecMax = Undefined
       \/ ch.radianPerSec = Undefined
    THEN blades
    ELSE [k \in 1..Len(blades) |->
             [blades[k] EXCEPT !.state.pitch =
                 @ + MulDt(FMul(blades[k].kGoverner,
                                ch.radianPerSec
                                    - (FMul(ch.ctlRadianPerSecMin,
                                            S - ch.propLeverPosition)
                                       + FMul(ch.ctlRadianPerSecMax,
                                              ch.propLeverPosition))),
                           deltaTime)]]

\* PropellerEngine.controlPropellerPitch: the blades after the governor
controlPropellerPitch(ch, blades, deltaTime) ==
    IF \/ Len(blades) = 0
       \/ ch.propLeverPosition = Undefined
       \/ ch.ctlRadianPerSecMin = Undefined
       \/ ch.ctlRadianPerSecMax = Undefined
       \/ ch.radianPerSec = Undefined
    THEN blades
    ELSE
    LET desiredRadianPerSec ==
            FMul(ch.ctlRadianPerSecMin, S - ch.propLeverPosition)
                + FMul(ch.ctlRadianPerSecMax, ch.propLeverPosition)
        speedDiff == ch.radianPerSec - desiredRadianPerSec
        Governed(blade) ==
            LET pitch == blade.state.pitch
                             + MulDt(FMul(blade.kGoverner, speedDiff), deltaTime)
            IN  [blade EXCEPT !.state.pitch =
                    IF pitch < blade.minPitch THEN blade.minPitch
                    ELSE IF pitch > blade.maxPitch THEN blade.maxPitch
                    ELSE pitch]
    IN  [k \in 1..Len(blades) |-> Governed(blades[k])]

\* PropellerEngine.update: the condition of the blade-element branch
updatesBlades(ch, blades) == Len(blades) > 0 /\ ch.radianPerSec # Undefined

\* PropellerEngine.getThrust: the condition of the blade-sum branch
thrustFromBlades(blades) == Len(blades) > 0

\* PropellerEngine.updateSimpleRPM
updateSimpleRPM(ch, deltaTime) ==
    LET targetRPM == FMul(ch.maxRPM, ch.throttle)
        brakingRPM ==
            MulDt(FMul(ch.currentRPM - ch.engineBrakeZeroThrottleRpm,
                       ch.engineBrakeTorquePerRpm), deltaTime)
    IN  IF ch.currentRPM > ch.engineBrakeZeroThrottleRpm
        THEN [ch EXCEPT !.currentRPM = Max(targetRPM, ch.currentRPM - brakingRPM)]
        ELSE [ch EXCEPT !.currentRPM =
                  @ + 2 * MulDt(targetRPM - ch.currentRPM, deltaTime)]

\* PropellerEngine.update
engineUpdate(ch, blades, deltaTime, airDensity, relativeVelocity) ==
    LET Governed(forced) ==
            [ch |-> [forced.ch EXCEPT !.currentRPM =
                        Abs(MulDiv(forced.ch.radianPerSec, 60000, TwoPi))],
             blades |-> controlPropellerPitch(forced.ch, forced.blades, deltaTime)]
    IN  IF updatesBlades(ch, blades)
        THEN Governed(calculateBladeForcesAndTorque(ch, blades, deltaTime,
                                                    airDensity, relativeVelocity))
        ELSE [ch |-> updateSimpleRPM(ch, deltaTime), blades |-> blades]

\* thrust that ignores the throttle and the propeller
getThrustFull(ch, blades) == ch.maxThrust

\* PropellerEngine.getThrust
getThrust(ch, blades) ==
    IF ~thrustFromBlades(blades) THEN FMul(ch.maxThrust, ch.throttle)
    ELSE SumOver([k \in 1..Len(blades) |-> blades[k].lift.z + blades[k].drag.z],
                 Len(blades), 0)

\* PropellerEngine.setThrottle
engineSetThrottle(ch, value) == [ch EXCEPT !.throttle = Max(0, Min(S, value))]

(***************************************************************************)
(* Aircraft (src/src/physics/types.ts, the class built from PropellerEngine,*)
(* AerodynamicsModel and PhysicsEnvironment)                               *)
(***************************************************************************)
\* Aircraft.constructor: defaultEngineCharacteristics
defaultEngineCharacteristics ==
    [maxThrust |-> 20000000, maxRPM |-> 2400000, currentRPM |-> 0, throttle |-> 0,
     engineBrakeZeroThrottleRpm |-> 700000, engineBrakeMaxThrottleRpm |-> 3000000,
     engineBrakeTorquePerRpm |-> 100,
     maxPowerJoulesPerSec |-> 120000000, idlePowerJoulesPerSec |-> 12000000,
     propellerBlades |-> NoArray, radianPerSec |-> 0,
     ctlRadianPerSecMin |-> 52360, ctlRadianPerSecMax |-> 314159,
     propLeverPosition |-> 700]

\* PropellerEngine.constructor: this.characteristics = { ...characteristics },
\* with a blade array of its own (array id own) when the record brings none
newPropellerEngine(characteristics, givenBlades, own) ==
    IF characteristics.propellerBlades = NoArray \/ Len(givenBlades) = 0
    THEN [characteristics EXCEPT !.propellerBlades = own]
    ELSE characteristics

\* Aircraft.constructor; engineCharacteristics is <<>> when the argument is
\* omitted and <<record>> otherwise
newAircraft(engineCharacteristics, givenBlades, own) ==
    [position |-> ZeroVec,
     rotation |-> ZeroAttitude,
     velocity |-> ZeroVec,
     angularVelocity |-> ZeroAttitude,
     mass |-> 1000000,
     inertia |-> [pitch |-> 2000000, roll |-> 1500000, yaw |-> 3000000],
     controls |-> [elevator |-> 0, aileron |-> 0, rudder |-> 0, flaps |-> 0,
                   throttle |-> 0],
     engine |-> IF engineCharacteristics = <<>>
                THEN newPropellerEngine(defaultEngineCharacteristics, <<>>, own)
                ELSE newPropellerEngine(engineCharacteristics[1], givenBlades, own),
     aerodynamics |-> defaultAerodynamics]

\* Aircraft.calculateForces: the total force, and the engine it has updated
calculateForces(acr, blades, deltaTime) ==
    LET airDensity == getAirDensity(acr.position.y)
        forwardVector ==
            Vec(FMul(Cos(acr.rotation.yaw), Cos(acr.rotation.pitch)),
                Sin(acr.rotation.pitch),
                FMul(Sin(acr.rotation.yaw), Cos(acr.rotation.pitch)))
        gravity == -FMul(getGravity, acr.mass)
        Total(eng, aerodynamicForces, thrustVector) ==
            [forces |-> VecAdd(VecAdd(VecAdd(thrustVector, aerodynamicForces.lift),
                                      aerodynamicForces.drag),
                               Vec(0, gravity, 0)),
             ch |-> eng.ch,
             blades |-> eng.blades]
        Thrusting(eng) ==
            Total(eng,
                  aeroCalculateForces(acr.aerodynamics, acr.velocity, acr.rotation,
                                      acr.controls, airDensity),
                  VecScale(forwardVector, getThrust(eng.ch, eng.blades)))
    IN  Thrusting(engineUpdate(acr.engine, blades, deltaTime, airDensity,
                               acr.velocity))

\* Aircraft.updateAngularVelocity: the new angular velocity
updateAngularVelocity(acr, deltaTime) ==
    LET airDensity == getAirDensity(acr.position.y)
        Damped(moments) ==
            [pitch |-> FMul(acr.angularVelocity.pitch
                                + MulDt(FDiv(2 * acr.controls.elevator,
                                             acr.inertia.pitch) + moments.pitch,
                                        deltaTime),
                            950),
             roll |-> FMul(acr.angularVelocity.roll
                               + MulDt(FDiv(3 * acr.controls.aileron,
                                            acr.inertia.roll) + moments.roll,
                                       deltaTime),
                           950),
             yaw |-> FMul(acr.angularVelocity.yaw
                              + MulDt(FDiv(acr.controls.rudder, acr.inertia.yaw)
                                          + moments.yaw,
                                      deltaTime),
                          950)]
    IN  Damped(aeroCalculateForces(acr.aerodynamics, acr.velocity, acr.rotation,
                                   acr.controls, airDensity).moments)

\* ground contact that stops the descent without zeroing the vertical speed
GroundContactSinking(acr) ==
    IF acr.position.y < 0
    THEN [acr EXCEPT !.position.y = 0,
                     !.velocity = Vec(FMul(acr.velocity.x, 950), acr.velocity.y,
                                      FMul(acr.velocity.z, 950))]
    ELSE acr

\* the ground-contact branch of Aircraft.update
GroundContact(acr) ==
    IF acr.position.y < 0
    THEN [acr EXCEPT !.position.y = 0,
                     !.velocity = Vec(FMul(acr.velocity.x, 950), 0,
                                      FMul(acr.velocity.z, 950))]
    ELSE acr

\* Aircraft.update: the aircraft and its blade array after the call, and the
\* height that the position integration produced before ground contact
aircraftUpdate(acr, blades, deltaTime) ==
    LET Landed(f, turned) ==
            [ac |-> GroundContact(turned), blades |-> f.blades,
             integratedY |-> turned.position.y]
        Turned(f, moved, angularVelocity) ==
            Landed(f,
                   [moved EXCEPT
                       !.angularVelocity = angularVelocity,
                       !.rotation =
                           [pitch |-> acr.rotation.pitch
                                          + MulDt(angularVelocity.pitch, deltaTime),
                            roll |-> acr.rotation.roll
                                         + MulDt(angularVelocity.roll, deltaTime),
                            yaw |-> acr.rotation.yaw
                                        + MulDt(angularVelocity.yaw, deltaTime)]])
        Moved(f, moved) == Turned(f, moved, updateAngularVelocity(moved, deltaTime))
        Integrated(f, velocity) ==
            Moved(f, [acr EXCEPT !.engine = f.ch, !.velocity = velocity,
                                 !.position = VecAdd(acr.position,
                                                     VecMulDt(velocity, deltaTime))])
        Forced(f) ==
            Integrated(f, VecAdd(acr.velocity,
                                 VecMulDt(VecDivide(f.forces, acr.mass), deltaTime)))
    IN  Forced(calculateForces(acr, blades, deltaTime))

\* Aircraft.setControls: { ...this.controls, ...newControls }
aircraftSetControls(acr, newControls) ==
    [acr EXCEPT !.controls =
        [k \in DOMAIN acr.controls |->
            IF k \in DOMAIN newControls THEN newControls[k] ELSE acr.controls[k]]]

\* setThrottle that stores the argument as it is
aircraftSetThrottleRaw(acr, throttle) ==
    [acr EXCEPT !.engine = engineSetThrottle(acr.engine, throttle),
                !.controls.throttle = throttle]

\* Aircraft.setThrottle
aircraftSetThrottle(acr, throttle) ==
    LET normalizedThrottle == Max(0, Min(S, throttle))
    IN  [acr EXCEPT !.engine = engineSetThrottle(acr.engine, normalizedThrottle),
                    !.controls.throttle = normalizedThrottle]

\* Aircraft.getControls: stores the engine's throttle, returns a copy
aircraftGetControls(acr) ==
    [acr EXCEPT !.controls.throttle = acr.engine.throttle]

(***************************************************************************)
(* PhysicsEngine (src/unnamed/part_000)                                    *)
(***************************************************************************)
GRAVITY == 9810

AIR_DENSITY == 1225

\* a speed of 0.1 m/s, below which the physics engine takes an aircraft as
\* not moving through the air
NearZero == 100

\* THREE.Vector3.applyEuler for an Euler angle of order "YXZ"
applyEuler(v, e) ==
    LET a == Cos(e.x)
        b == Sin(e.x)
        c == Cos(e.y)
        d == Sin(e.y)
        ee == Cos(e.z)
        f == Sin(e.z)
        ce == FMul(c, ee)
        cf == FMul(c, f)
        de == FMul(d, ee)
        df == FMul(d, f)
    IN  Vec(FMul(ce + FMul(df, b), v.x) + FMul(FMul(de, b) - cf, v.y)
                + FMul(FMul(a, d), v.z),
            FMul(FMul(a, f), v.x) + FMul(FMul(a, ee), v.y) - FMul(b, v.z),
            FMul(FMul(cf, b) - de, v.x) + FMul(df + FMul(ce, b), v.y)
                + FMul(FMul(a, c), v.z))

\* PhysicsEngine.registerAircraft: defaultState
defaultState ==
    [position |-> ZeroVec, velocity |-> ZeroVec, acceleration |-> ZeroVec,
     rotation |-> ZeroVec, angularVelocity |-> ZeroVec,
     angularAcceleration |-> ZeroVec, throttle |-> 0,
     controlInputs |-> [elevator |-> 0, aileron |-> 0, rudder |-> 0, flaps |-> 0]]

\* a registration that starts every aircraft from defaultState
registeredStateDefault(initialState) == defaultState

\* PhysicsEngine.registerAircraft: the state merged from defaultState and a
\* partial initialState
registeredState(initialState) ==
    [k \in DOMAIN defaultState |->
        IF k = "controlInputs"
        THEN [c \in DOMAIN defaultState.controlInputs |->
                 IF "controlInputs" \in DOMAIN initialState
                    /\ c \in DOMAIN initialState.controlInputs
                 THEN initialState.controlInputs[c]
                 ELSE defaultState.controlInputs[c]]
        ELSE IF k \in DOMAIN initialState THEN initialState[k]
        ELSE defaultState[k]]

\* PhysicsEngine.calculateThrust
calculateThrust(properties, state) ==
    LET thrustMagnitude == FMul(properties.maxThrust, state.throttle)
        direction == applyEuler(Vec(0, 0, S), state.rotation)
    IN  VecScale(direction, thrustMagnitude)

\* an airspeed test that never takes the aircraft as standing in the air
airspeedNegligibleNever(airspeed) == FALSE

\* PhysicsEngine.calculateAerodynamicForces: airspeed < 0.1
airspeedNegligible(airspeed) == airspeed < NearZero

\* PhysicsEngine.calculateAerodynamicForces
calculateAerodynamicForces(properties, state) ==
    LET upVector == applyEuler(Vec(0, S, 0), state.rotation)
        forwardVector == applyEuler(Vec(0, 0, S), state.rotation)
        sideForceFactor == state.controlInputs.rudder \div 2
        Scaled(velocityDirection, rightVector, liftMagnitude, dragMagnitude,
               sideForceMagnitude) ==
            [lift |-> VecScale(upVector, liftMagnitude),
             drag |-> VecScale(velocityDirection, -dragMagnitude),
             sideForce |-> VecScale(rightVector, sideForceMagnitude)]
        Pressed(velocityDirection, effectiveLiftCoef, effectiveDragCoef,
                dynamicPressure) ==
            Scaled(velocityDirection,
                   VecNormalize(VecCross(forwardVector, upVector)),
                   FMul(FMul(dynamicPressure, properties.wingArea),
                        effectiveLiftCoef),
                   FMul(FMul(dynamicPressure, properties.wingArea),
                        effectiveDragCoef),
                   FMul(FMul(dynamicPressure, properties.wingArea),
                        sideForceFactor))
        Inclined(airspeed, velocityDirection, angleOfAttack) ==
            Pressed(velocityDirection,
                    FMul(properties.liftCoefficient,
                         S + 5 * angleOfAttack
                             + state.controlInputs.elevator \div 2
                             + FMul(state.controlInputs.flaps, 800)),
                    FMul(properties.dragCoefficient,
                         S + 10 * FMul(angleOfAttack, angleOfAttack)
                             + state.controlInputs.flaps \div 2),
                    FMul(FMul(AIR_DENSITY, airspeed), airspeed) \div 2)
        Directed(airspeed, velocityDirection) ==
            Inclined(airspeed, velocityDirection,
                     Acos(VecDot(forwardVector, velocityDirection)) - HalfPi)
        Flying(airspeed) ==
            IF airspeedNegligible(airspeed)
            THEN [lift |-> ZeroVec, drag |-> ZeroVec, sideForce |-> ZeroVec]
            ELSE Directed(airspeed, VecNormalize(state.velocity))
    IN  Flying(VecLen(state.velocity))

\* PhysicsEngine.calculateMoments
calculateMoments(properties, state, forces) ==
    LET rollMoment ==
            FMul(FMul(FMul(properties.wingspan \div 2, state.controlInputs.aileron),
                      VecLen(forces.lift)), 100)
        pitchMoment ==
            FMul(FMul(state.controlInputs.elevator, VecLen(forces.lift)), 200)
        yawMoment ==
            FMul(FMul(state.controlInputs.rudder, VecLen(forces.drag)), 200)
    IN  Vec(rollMoment - state.angularVelocity.x \div 2,
            pitchMoment - state.angularVelocity.y \div 2,
            yawMoment - state.angularVelocity.z \div 2)

\* PhysicsEngine.updateAircraft: the state after the call, and the height
\* that the position integration produced before the ground check
updateAircraft(properties, state, deltaTime) ==
    LET gravityForce == Vec(0, -FMul(GRAVITY, properties.mass), 0)
        Landed(turned) ==
            [state |-> IF turned.position.y < 0
                       THEN [turned EXCEPT
                                !.position.y = 0,
                                !.velocity = Vec(FMul(turned.velocity.x, 950), 0,
                                                 FMul(turned.velocity.z, 950))]
                       ELSE turned,
             integratedY |-> turned.position.y]
        Turned(moved, angularAcceleration, angularVelocity) ==
            Landed([moved EXCEPT
                       !.angularAcceleration = angularAcceleration,
                       !.angularVelocity = angularVelocity,
                       !.rotation = VecAdd(state.rotation,
                                           VecMulDt(angularVelocity, deltaTime))])
        Spun(moved, angularAcceleration) ==
            Turned(moved, angularAcceleration,
                   VecAdd(state.angularVelocity,
                          VecMulDt(angularAcceleration, deltaTime)))
        Torqued(moved, moments) ==
            Spun(moved, Vec(FDiv(moments.x, properties.momentOfInertia.x),
                            FDiv(moments.y, properties.momentOfInertia.y),
                            FDiv(moments.z, properties.momentOfInertia.z)))
        Moved(aerodynamicForces, moved) ==
            Torqued(moved, calculateMoments(properties, moved, aerodynamicForces))
        Sped(aerodynamicForces, acceleration, velocity) ==
            Moved(aerodynamicForces,
                  [state EXCEPT !.acceleration = acceleration,
                                !.velocity = velocity,
                                !.position = VecAdd(state.position,
                                                    VecMulDt(velocity, deltaTime))])
        Accelerated(aerodynamicForces, acceleration) ==
            Sped(aerodynamicForces, acceleration,
                 VecAdd(state.velocity, VecMulDt(acceleration, deltaTime)))
        Forced(aerodynamicForces) ==
            Accelerated(
                aerodynamicForces,
                VecDivide(VecAdd(VecAdd(VecAdd(VecAdd(gravityForce,
                                                      calculateThrust(properties,
                                                                      state)),
                                               aerodynamicForces.lift),
                                        aerodynamicForces.drag),
                                 aerodynamicForces.sideForce),
                          properties.mass))
    IN  Forced(calculateAerodynamicForces(properties, state))

\* PhysicsEngine.updateControlInputs: the merged controlInputs object
updateControlInputs(state, controlInputs) ==
    [state EXCEPT !.controlInputs =
        [k \in DOMAIN state.controlInputs \cup DOMAIN controlInputs |->
            IF k \in DOMAIN controlInputs THEN controlInputs[k]
            ELSE state.controlInputs[k]]]

\* PhysicsEngine.setThrottle
physicsSetThrottle(state, throttle) ==
    [state EXCEPT !.throttle = Max(0, Min(S, throttle))]


\* an update that requests the next one in test mode too
skipsSchedulingNever(p) == FALSE

\* PhysicsEngine.update: "Skip scheduling next update if in test mode"
skipsScheduling(p) == p.isTestMode

\* PhysicsEngine.update (private), called at time currentTime on host h: the
\* engine and the host after it, and the time step it has used
physicsUpdate(p, h, currentTime) ==
    LET deltaTime == [n |-> currentTime - p.lastTimestamp, d |-> 1000]
        Requested(stepped, id) ==
            [pe |-> IF h.raf THEN [stepped EXCEPT !.animationFrameId = <<id>>]
                    ELSE [stepped EXCEPT !.timeoutId = <<id>>],
             host |-> [h EXCEPT !.callbacks = @ \cup {id}, !.issued = id],
             ran |-> TRUE, dt |-> deltaTime]
        Stepped(stepped) ==
            IF skipsScheduling(p)
            THEN [pe |-> stepped, host |-> h, ran |-> TRUE, dt |-> deltaTime]
            ELSE Requested(stepped, h.issued + 1)
    IN  IF ~p.isRunning
        THEN [pe |-> p, host |-> h, ran |-> FALSE, dt |-> deltaTime]
        ELSE Stepped([p EXCEPT
                         !.lastTimestamp = currentTime,
                         !.aircrafts =
                             [id \in DOMAIN p.aircrafts |->
                                 [p.aircrafts[id] EXCEPT !.state =
                                     updateAircraft(p.aircrafts[id].properties,
                                                    p.aircrafts[id].state,
                                                    deltaTime).state]]])

\* PhysicsEngine.start at time currentTime
physicsStart(p, h, currentTime) ==
    IF p.isRunning
    THEN [pe |-> p, host |-> h, ran |-> FALSE, dt |-> [n |-> 0, d |-> 1000]]
    ELSE physicsUpdate([p EXCEPT !.isRunning = TRUE,
                                 !.lastTimestamp = currentTime],
                       h, currentTime)

\* a stop that leaves the engine and the host as they are
physicsStopIgnored(p, h) == [pe |-> p, host |-> h]

\* PhysicsEngine.stop: cancelAnimationFrame exists where
\* requestAnimationFrame does
physicsStop(p, h) ==
    LET cancelled == IF p.animationFrameId # <<>> /\ h.raf
                     THEN {p.animationFrameId[1]} ELSE {}
        cleared == IF p.timeoutId # <<>> THEN {p.timeoutId[1]} ELSE {}
    IN  [pe |-> [p EXCEPT !.isRunning = FALSE,
                          !.animationFrameId =
                              IF p.animationFrameId # <<>> /\ h.raf THEN <<>>
                              ELSE @,
                          !.timeoutId = <<>>],
         host |-> [h EXCEPT !.callbacks = @ \ (cancelled \cup cleared)]]

\* PhysicsEngine.enableTestMode
enableTestMode(p, enabled) == [p EXCEPT !.isTestMode = enabled]

(***************************************************************************)
(* PIDController and AutopilotController (src/src/main.ts)                 *)
(***************************************************************************)
\* a gain is the rational n / d
Gain(n, d) == [n |-> n, d |-> d]

\* new PIDController(kP, kI, kD), outputMin = -1, outputMax = 1
newPID(kP, kI, kD) ==
    [kP |-> kP, kI |-> kI, kD |-> kD, integral |-> 0, previousError |-> 0,
     outputMin |-> -S, outputMax |-> S]

\* compute that returns the sum of the three terms as it is
pidComputeRaw(pid, error, deltaTime) ==
    LET pTerm == MulDiv(error, pid.kP.n, pid.kP.d)
        integral == pid.integral + MulDt(error, deltaTime)
        iTerm == MulDiv(integral, pid.kI.n, pid.kI.d)
        derivative == DivDt(error - pid.previousError, deltaTime)
        dTerm == MulDiv(derivative, pid.kD.n, pid.kD.d)
    IN  [output |-> pTerm + iTerm + dTerm,
         pid |-> [pid EXCEPT !.integral = integral, !.previousError = error]]

\* PIDController.compute: the output and the controller after the call
pidCompute(pid, error, deltaTime) ==
    LET pTerm == MulDiv(error, pid.kP.n, pid.kP.d)
        integral == pid.integral + MulDt(error, deltaTime)
        iTerm == MulDiv(integral, pid.kI.n, pid.kI.d)
        derivative == DivDt(error - pid.previousError, deltaTime)
        dTerm == MulDiv(derivative, pid.kD.n, pid.kD.d)
        output == Max(pid.outputMin, Min(pid.outputMax, pTerm + iTerm + dTerm))
    IN  [output |-> output,
         pid |-> [pid EXCEPT !.integral = integral, !.previousError = error]]

\* reset that leaves the previous error
pidResetIntegral(pid) == [pid EXCEPT !.integral = 0]

\* PIDController.reset
pidReset(pid) == [pid EXCEPT !.integral = 0, !.previousError = 0]

\* the JavaScript remainder a % m: it has the sign of a
JsRem(a, m) == a - m * TDiv(a, m)

\* radians to degrees: r * 180 / Math.PI
ToDegrees(r) == MulDiv(r, 180000, Pi)

\* AutopilotController.constructor; targetWaypoint is <<>> for null
newAutopilot ==
    [mode |-> "OFF",
     settings |-> [targetHeading |-> 0, targetAltitude |-> 1000000,
                   targetSpeed |-> 120000, targetWaypoint |-> <<>>,
                   approachGlideslope |-> 3000, maxBankAngle |-> 25000,
                   maxPitchAngle |-> 15000],
     headingController |-> newPID(Gain(1, 100), Gain(1, 1000), Gain(1, 20)),
     altitudeController |-> newPID(Gain(1, 100), Gain(1, 2000), Gain(1, 20)),
     speedController |-> newPID(Gain(1, 100), Gain(1, 1000), Gain(1, 50)),
     aircraftId |-> <<>>,
     lastUpdateTime |-> 0]

\* AutopilotController.setMode
apSetMode(a, mode) ==
    IF a.mode # mode
    THEN [a EXCEPT !.mode = mode,
                   !.headingController = pidReset(@),
                   !.altitudeController = pidReset(@),
                   !.speedController = pidReset(@)]
    ELSE a

\* AutopilotController.setTargetHeading
apSetTargetHeading(a, heading) ==
    [a EXCEPT !.settings.targetHeading =
        JsRem(JsRem(heading, 360000) + 360000, 360000)]

\* AutopilotController.setTargetAltitude
apSetTargetAltitude(a, altitude) ==
    [a EXCEPT !.settings.targetAltitude = Max(0, altitude)]

\* AutopilotController.setTargetSpeed
apSetTargetSpeed(a, speed) == [a EXCEPT !.settings.targetSpeed = Max(0, speed)]

\* AutopilotController.setTargetWaypoint: a clone of the waypoint, or null
apSetTargetWaypoint(a, waypoint) == [a EXCEPT !.settings.targetWaypoint = waypoint]

\* heading error without wrap-around
headingErrorPlain(targetHeading, currentHeading) == targetHeading - currentHeading

\* the heading error of controlHeading, before it goes to the PID
headingError(targetHeading, currentHeading) ==
    LET error == targetHeading - currentHeading
        lowered == IF error > 180000 THEN error - 360000 ELSE error
    IN  IF lowered < -180000 THEN lowered + 360000 ELSE lowered

\* AutopilotController.controlHeading
controlHeading(a, currentHeading, deltaTime) ==
    LET error == headingError(a.settings.targetHeading, currentHeading)
        r == pidCompute(a.headingController, error, deltaTime)
    IN  [output |-> r.output, ap |-> [a EXCEPT !.headingController = r.pid],
         error |-> error]

\* AutopilotController.controlAltitude
controlAltitude(a, currentAltitude, deltaTime) ==
    LET r == pidCompute(a.altitudeController,
                        a.settings.targetAltitude - currentAltitude, deltaTime)
    IN  [output |-> r.output, ap |-> [a EXCEPT !.altitudeController = r.pid]]

\* AutopilotController.controlSpeed
controlSpeed(a, currentSpeed, deltaTime) ==
    LET r == pidCompute(a.speedController,
                        a.settings.targetSpeed - currentSpeed, deltaTime)
    IN  [output |-> (r.output + S) \div 2,
         ap |-> [a EXCEPT !.speedController = r.pid]]

\* the heading navigateToWaypoint computes from the direction to the waypoint
waypointHeading(waypoint, position) ==
    LET direction == VecNormalize(Vec(waypoint.x - position.x,
                                      waypoint.y - position.y,
                                      waypoint.z - position.z))
    IN  JsRem(ToDegrees(Atan2(direction.x, direction.z)) + 360000, 360000)

\* AutopilotController.navigateToWaypoint
navigateToWaypoint(a, position) ==
    IF a.settings.targetWaypoint = <<>> THEN a
    ELSE apSetTargetHeading(a, waypointHeading(a.settings.targetWaypoint[1], position))

\* update that returns early only when no aircraft is set
apInactiveUnset(a) == a.aircraftId = <<>>

\* AutopilotController.update: the first early return
apInactive(a) == a.mode = "OFF" \/ a.aircraftId = <<>>

\* AutopilotController.update, from the point where the aircraft state has
\* been found and deltaTime > 0: the autopilot after the tick, what it
\* writes to the physics engine, and the error its heading PID was given
apControl(a, aircraftState, deltaTime) ==
    LET heading == JsRem(ToDegrees(aircraftState.rotation.y) + 360000, 360000)
        altitude == FMul(aircraftState.position.y, 3281)
        speed == FMul(VecLen(aircraftState.velocity), 1944)
        steers == a.mode \in {"HEADING_HOLD", "NAVIGATION", "FULL"}
        climbs == a.mode \in {"ALTITUDE_HOLD", "APPROACH", "FULL"}
        \* navigateToWaypoint runs after the three controllers
        Navigated(h, v, t) ==
            [ap |-> IF a.mode = "NAVIGATION" /\ a.settings.targetWaypoint # <<>>
                    THEN navigateToWaypoint(t.ap, aircraftState.position)
                    ELSE t.ap,
             controlInputs |-> [aileron |-> h.output, elevator |-> v.output,
                                rudder |-> 0],
             throttle |-> t.output,
             heading |-> heading,
             headingPid |-> steers,
             headingError |-> h.error]
        Climbed(h, v) ==
            Navigated(h, v,
                      IF a.mode = "FULL" THEN controlSpeed(v.ap, speed, deltaTime)
                      ELSE [output |-> aircraftState.throttle, ap |-> v.ap])
        Steered(h) ==
            Climbed(h,
                    IF climbs THEN controlAltitude(h.ap, altitude, deltaTime)
                    ELSE [output |-> 0, ap |-> h.ap])
    IN  Steered(IF steers THEN controlHeading(a, heading, deltaTime)
                ELSE [output |-> 0, ap |-> a, error |-> 0])

(***************************************************************************)
(* YSFlightWeb (src/src/main.ts)                                           *)
(***************************************************************************)
newApp == [isRunning |-> FALSE]

\* YSFlightWeb.mainLoop on host h: the host after it
appMainLoop(a, h) ==
    IF ~a.isRunning THEN h ELSE [h EXCEPT !.mainLoop = @ + 1]

\* YSFlightWeb.start
appStart(a, h) ==
    IF a.isRunning THEN [app |-> a, host |-> h]
    ELSE [app |-> [a EXCEPT !.isRunning = TRUE],
          host |-> appMainLoop([a EXCEPT !.isRunning = TRUE], h)]

\* YSFlightWeb.stop
appStop(a) == IF ~a.isRunning THEN a ELSE [a EXCEPT !.isRunning = FALSE]

(***************************************************************************)
(* GUIManager (src/src/gui/interface.ts), as far as the menus go           *)
(***************************************************************************)
\* the main menu and the options menu exist and are hidden
newGUIManager == [shown |-> {}, activeMenu |-> <<>>]

\* GUIManager.showMenu(id)
showMenu(g, id) == [shown |-> g.shown \cup {id}, activeMenu |-> <<id>>]

\* GUIManager.hideMenu(id)
hideMenu(g, id) ==
    [shown |-> g.shown \ {id},
     activeMenu |-> IF g.activeMenu = <<id>> THEN <<>> ELSE g.activeMenu]

(***************************************************************************)
(* InputHandler (src/unnamed/part_005)                                     *)
(***************************************************************************)
\* the actions of DEFAULT_MAPPINGS that the runs use, with their key lists:
\* a UI action, a two-key flight control and an autopilot switch
DEFAULT_MAPPINGS ==
    [pause |-> <<"Escape">>, pitch_up |-> <<"ArrowDown", "s">>,
     autopilot_toggle |-> <<"p">>]

InputActions == DOMAIN DEFAULT_MAPPINGS

\* a key state as initializeKeyStates and remapKey create it
NewKeyState ==
    [pressed |-> FALSE, justPressed |-> FALSE, justReleased |-> FALSE]

\* the keys of a key list
KeysOf(keys) == {keys[i] : i \in 1..Len(keys)}

\* InputHandler.initializeKeyStates: a state for every key of the mappings
\* that has none; mappings[action] names a mapping object
initializeKeyStates(h, objects) ==
    LET mapped == UNION {KeysOf(objects[h.mappings[a]]) : a \in DOMAIN h.mappings}
    IN  [h EXCEPT !.keyStates =
            [k \in DOMAIN h.keyStates \cup mapped |->
                IF k \in DOMAIN h.keyStates THEN h.keyStates[k] ELSE NewKeyState]]

\* InputHandler.constructor: this.mappings = DEFAULT_MAPPINGS, the object
\* itself; no aircraft is set, and the mouse is left alone
newInputHandler ==
    initializeKeyStates([keyStates |-> <<>>,
                         mappings |-> [a \in InputActions |-> a],
                         isPaused |-> FALSE],
                        DEFAULT_MAPPINGS)

\* a keydown handler that takes every event as a new press
handleKeyDownRepeated(h, key) ==
    IF key \notin DOMAIN h.keyStates THEN h
    ELSE [h EXCEPT !.keyStates[key].pressed = TRUE,
                   !.keyStates[key].justPressed = TRUE]

\* InputHandler.handleKeyDown
handleKeyDown(h, key) ==
    IF key \notin DOMAIN h.keyStates THEN h
    ELSE IF ~h.keyStates[key].pressed
    THEN [h EXCEPT !.keyStates[key].pressed = TRUE,
                   !.keyStates[key].justPressed = TRUE]
    ELSE h

\* InputHandler.handleKeyUp
handleKeyUp(h, key) ==
    IF key \notin DOMAIN h.keyStates THEN h
    ELSE IF h.keyStates[key].pressed
    THEN [h EXCEPT !.keyStates[key].pressed = FALSE,
                   !.keyStates[key].justReleased = TRUE]
    ELSE h

\* InputHandler.isActionJustPressed
isActionJustPressed(h, objects, action) ==
    /\ action \in DOMAIN h.mappings
    /\ \E key \in KeysOf(objects[h.mappings[action]]) :
           key \in DOMAIN h.keyStates /\ h.keyStates[key].justPressed

\* InputHandler.resetJustPressedStates
resetJustPressedStates(h) ==
    [h EXCEPT !.keyStates =
        [k \in DOMAIN h.keyStates |->
            [h.keyStates[k] EXCEPT !.justPressed = FALSE,
                                   !.justReleased = FALSE]]]

\* InputHandler.togglePause: the handler and the GUI after it
togglePause(h, g) ==
    IF ~h.isPaused
    THEN [input |-> [h EXCEPT !.isPaused = TRUE], gui |-> showMenu(g, "main-menu")]
    ELSE [input |-> [h EXCEPT !.isPaused = FALSE],
          gui |-> hideMenu(hideMenu(g, "main-menu"), "options-menu")]

\* InputHandler.updateAutopilotControl, for the autopilot switch
updateAutopilotControl(h, objects, a) ==
    IF isActionJustPressed(h, objects, "autopilot_toggle")
    THEN IF a.mode = "OFF" THEN apSetMode(a, "FULL") ELSE apSetMode(a, "OFF")
    ELSE a

\* InputHandler.update while no aircraft is set (updateAircraftControl
\* returns at once, updateViewControl only logs): the handler, the GUI and
\* the autopilot after it
inputUpdate(h, objects, g, a) ==
    LET Controlled(t) ==
            [input |-> resetJustPressedStates(t.input), gui |-> t.gui,
             ap |-> IF ~t.input.isPaused
                    THEN updateAutopilotControl(t.input, objects, a) ELSE a]
    IN  IF h.isPaused
        THEN [input |-> resetJustPressedStates(h), gui |-> g, ap |-> a]
        ELSE Controlled(IF isActionJustPressed(h, objects, "pause")
                        THEN togglePause(h, g)
                        ELSE [input |-> h, gui |-> g])

\* the index of key in keys, 0 when it is not there
IndexOf(keys, key) ==
    IF key \in KeysOf(keys)
    THEN CHOOSE i \in 1..Len(keys) :
             keys[i] = key /\ \A j \in 1..(i - 1) : keys[j] # key
    ELSE 0

\* InputHandler.remapKey: the handler, the mapping objects and the result;
\* mapping.keys[keyIndex] = newKey writes to the mapping object itself
remapKey(h, objects, action, oldKey, newKey) ==
    IF action \notin DOMAIN h.mappings
    THEN [input |-> h, objects |-> objects, result |-> FALSE]
    ELSE IF IndexOf(objects[h.mappings[action]], oldKey) = 0
    THEN [input |-> h, objects |-> objects, result |-> FALSE]
    ELSE [input |-> IF newKey \in DOMAIN h.keyStates THEN h
                    ELSE [h EXCEPT !.keyStates =
                             [k \in DOMAIN h.keyStates \cup {newKey} |->
                                 IF k = newKey THEN NewKeyState ELSE h.keyStates[k]]],
          objects |-> [objects EXCEPT
                          ![h.mappings[action]]
                              [IndexOf(objects[h.mappings[action]], oldKey)] = newKey],
          result |-> TRUE]

\* InputHandler.resetMappings: { ...DEFAULT_MAPPINGS } is a new object with
\* the mapping objects of DEFAULT_MAPPINGS
resetMappings(h, objects) ==
    initializeKeyStates([h EXCEPT !.mappings = [a \in InputActions |-> a]],
                        objects)

(***************************************************************************)
(* State                                                                   *)
(***************************************************************************)
VARIABLES
    ac,         \* the constructed Aircraft instances, by instance number
    arrays,     \* the PropellerBlade arrays, by array id: 0 is the array of
                \* the caller's EngineCharacteristics record, a > 0 the array
                \* that the engine of aircraft a created for itself
    pe,         \* the PhysicsEngine singleton
    ap,         \* the AutopilotController singleton
    now,        \* performance.now(), in ms
    held,       \* the object a caller got from the accessor it called last;
                \* alias says that it is the object the owner still uses
    last,       \* the operation performed last, with its arguments and locals
    restTicks,  \* update(1/60) calls made on aircraft 1 since it was at rest,
                \* -1 once anything else has happened to it
    budget,     \* the operations the run may still perform, and the unit
                \* the run exercises
    host,       \* the JavaScript host: whether it has requestAnimationFrame,
                \* the callbacks it has pending, the ids it has issued
    app,        \* the YSFlightWeb application
    input,      \* the InputHandler singleton
    inputMappings,  \* the key lists of the mapping objects that the literal
                \* DEFAULT_MAPPINGS created, by the action they were made for
    gui         \* the GUIManager singleton: the menus shown, the active menu

vars == <<ac, arrays, pe, ap, now, held, last, restTicks, budget, host, app,
          input, inputMappings, gui>>

\* the variables of the application, the input handler and the GUI
uiVars == <<app, input, inputMappings, gui>>

\* number of operations a test-style run performs
MaxOps == 3

\* number of frames a frame-loop run performs
MaxTicks == 10

\* number of setter calls a frame-loop run performs
MaxSets == 1

\* number of operations a run on two aircraft performs
MaxFleetOps == 3

\* number of operations a run that reads state back performs
MaxAccessOps == 4

\* number of operations an autopilot run performs
MaxApOps == 5

MaxScheduleOps == 5

\* number of operations a run at altitude performs
MaxClimbOps == 3

\* number of operations a run on caller-made blades performs
MaxInertiaOps == 3

\* number of operations a run on the registry of aircraft performs
MaxRegistryOps == 4

\* number of operations a run on the two loops performs
MaxLoopOps == 5

\* number of events and calls a run on the input handler performs
MaxInputOps == 5

Dt60 == [n |-> 1, d |-> 60]

\* time steps of update calls: a frame, and a tenth of a second
DtSet == {Dt60, [n |-> 1, d |-> 10]}

\* EngineCharacteristics records a caller passes to the constructors: with a
\* blade array (array 0) and a signed initial angular rate, and the older
\* record shape without the propeller extension
BladeRecord(radianPerSec) ==
    [defaultEngineCharacteristics EXCEPT !.propellerBlades = 0,
                                         !.radianPerSec = radianPerSec]

LegacyRecord ==
    [defaultEngineCharacteristics EXCEPT
        !.maxPowerJoulesPerSec = Undefined, !.idlePowerJoulesPerSec = Undefined,
        !.radianPerSec = Undefined, !.ctlRadianPerSecMin = Undefined,
        !.ctlRadianPerSecMax = Undefined, !.propLeverPosition = Undefined]

CallerRecords == {BladeRecord(0), BladeRecord(400000), BladeRecord(-60000),
                  LegacyRecord}

EngineArgs == {<<>>} \cup {<<r>> : r \in CallerRecords}

\* the blade array of the caller's record
CallerBlades(arg) ==
    IF arg # <<>> /\ arg[1].propellerBlades = 0 THEN initializePropellerBlades
    ELSE <<>>

\* the arrays after the aircraft of args have been constructed
ArraysFor(args) ==
    [r \in 0..2 |->
        IF r = 0 THEN IF \E a \in DOMAIN args : CallerBlades(args[a]) # <<>>
                      THEN initializePropellerBlades ELSE <<>>
        ELSE IF r \in DOMAIN args /\ CallerBlades(args[r]) = <<>>
             THEN initializePropellerBlades
        ELSE <<>>]

\* the properties the repository's tests register an aircraft with
TestProperties ==
    [mass |-> 1000000, wingspan |-> 10000, wingArea |-> 20000,
     dragCoefficient |-> 30, liftCoefficient |-> 500, maxThrust |-> 20000000,
     momentOfInertia |-> Vec(1000000, 2000000, 1500000)]

\* the aircraft id the runs register
Ids == {"a1"}

\* PhysicsEngine.constructor
newPhysicsEngine ==
    [aircrafts |-> <<>>, lastTimestamp |-> 0, isRunning |-> FALSE,
     animationFrameId |-> <<>>, timeoutId |-> <<>>, isTestMode |-> FALSE]

\* a host without requestAnimationFrame (Node, Deno) and one with it (a
\* browser), before any callback was requested; mainLoop counts the pending
\* callbacks of YSFlightWeb.mainLoop, whose ids nobody keeps
NodeHost == [raf |-> FALSE, callbacks |-> {}, issued |-> 0, mainLoop |-> 0]

BrowserHost == [raf |-> TRUE, callbacks |-> {}, issued |-> 0, mainLoop |-> 0]

NoObject == [kind |-> "none"]

AircraftKinds == {"position", "rotation", "velocity", "controls"}

Blades(a) == arrays[ac[a].engine.propellerBlades]

\* at rest on the ground with the engine stopped, as the constructor leaves it
AtRest(acr) ==
    /\ acr.position.y = 0
    /\ acr.velocity = ZeroVec
    /\ acr.angularVelocity = ZeroAttitude
    /\ acr.controls = [elevator |-> 0, aileron |-> 0, rudder |-> 0, flaps |-> 0,
                       throttle |-> 0]
    /\ acr.engine.throttle = 0
    /\ acr.engine.currentRPM = 0
    /\ acr.engine.radianPerSec \in {0, Undefined}

\* the application, the input handler and the GUI after construction
InitUi ==
    /\ app = newApp
    /\ input = newInputHandler
    /\ inputMappings = DEFAULT_MAPPINGS
    /\ gui = newGUIManager

\* the state after the constructors have run: the aircraft of args, an empty
\* physics engine and an autopilot
InitWith(args, b) ==
    /\ ac = [a \in DOMAIN args |->
                newAircraft(args[a], CallerBlades(args[a]), a)]
    /\ arrays = ArraysFor(args)
    /\ pe = newPhysicsEngine
    /\ ap = newAutopilot
    /\ now = 0
    /\ held = NoObject
    /\ last = [op |-> "construct"]
    /\ restTicks = IF AtRest(ac[1]) THEN 0 ELSE -1
    /\ budget = b
    /\ host = NodeHost
    /\ InitUi

\* units are the subsystems a run exercises
Budget(units, ops, upd, set) ==
    [units |-> units, ops |-> ops, upd |-> upd, set |-> set]

Spend(unit, kind) ==
    /\ unit \in budget.units
    /\ budget[kind] > 0
    /\ budget.ops > 0
    /\ budget' = [budget EXCEPT ![kind] = @ - 1, !.ops = @ - 1]

\* the object a caller holds, after the aircraft changed to acNew and the
\* fields named in rebound were given a new object on aircraft a
HeldAfter(acNew, a, rebound) ==
    IF held.kind \in AircraftKinds /\ held.alias
    THEN IF held.a = a /\ held.kind \in rebound
         THEN [held EXCEPT !.alias = FALSE]
         ELSE [held EXCEPT !.val = acNew[held.a][held.kind]]
    ELSE held

\* the object a caller holds, after the physics engine changed to peNew and
\* the aircraft named in replaced were given a new state object or none
HeldAfterPhysics(peNew, replaced) ==
    IF held.kind = "state" /\ held.alias
    THEN IF held.id \in replaced
         THEN [held EXCEPT !.alias = FALSE]
         ELSE [held EXCEPT !.val = peNew.aircrafts[held.id].state]
    ELSE held

RestAfter(acNew, a, ticked) ==
    IF a # 1 THEN restTicks
    ELSE IF ticked /\ restTicks >= 0 THEN restTicks + 1
    ELSE IF AtRest(acNew[1]) THEN 0
    ELSE -1

(***************************************************************************)
(* Operations on an Aircraft                                               *)
(***************************************************************************)
\* Aircraft.update(deltaTime) on aircraft a
DoUpdate(a, dt) ==
    LET Stored(r, acNew) ==
            /\ ac' = acNew
            /\ arrays' = [arrays EXCEPT ![ac[a].engine.propellerBlades] = r.blades]
            /\ held' = HeldAfter(acNew, a, {})
            /\ last' = [op |-> "update", a |-> a, dt |-> dt,
                        integratedY |-> r.integratedY,
                        rateBefore |-> ac[a].engine.radianPerSec]
            /\ restTicks' = RestAfter(acNew, a, dt = Dt60)
        Updated(r) == Stored(r, [ac EXCEPT ![a] = r.ac])
    IN  /\ Spend("aircraft", "upd")
        /\ Updated(aircraftUpdate(ac[a], Blades(a), dt))
        /\ UNCHANGED <<pe, ap, now, host, uiVars>>

\* an operation on aircraft a that leaves the engine's blades alone
DoSet(a, acrNew, rebound, op) ==
    LET acNew == [ac EXCEPT ![a] = acrNew]
    IN  /\ Spend("aircraft", "set")
        /\ ac' = acNew
        /\ held' = HeldAfter(acNew, a, rebound)
        /\ last' = op
        /\ restTicks' = RestAfter(acNew, a, FALSE)
        /\ UNCHANGED <<arrays, pe, ap, now, host, uiVars>>

\* Aircraft.setControls(newControls): this.controls is a new object
DoSetControls(a, newControls) ==
    DoSet(a, aircraftSetControls(ac[a], newControls), {"controls"},
          [op |-> "setControls", a |-> a, arg |-> newControls])

\* Aircraft.setThrottle(throttle)
DoSetThrottle(a, throttle) ==
    DoSet(a, aircraftSetThrottle(ac[a], throttle), {},
          [op |-> "setThrottle", a |-> a, arg |-> throttle])

\* Aircraft.setPosition(position): this.position = { ...position }
DoSetPosition(a, position) ==
    DoSet(a, [ac[a] EXCEPT !.position = position], {"position"},
          [op |-> "setPosition", a |-> a, arg |-> position])

\* Aircraft.setVelocity(velocity)
DoSetVelocity(a, velocity) ==
    DoSet(a, [ac[a] EXCEPT !.velocity = velocity], {"velocity"},
          [op |-> "setVelocity", a |-> a, arg |-> velocity])

\* Aircraft.setRotation(rotation)
DoSetRotation(a, rotation) ==
    DoSet(a, [ac[a] EXCEPT !.rotation = rotation], {"rotation"},
          [op |-> "setRotation", a |-> a, arg |-> rotation])

\* an accessor that returns this.<field> itself
returnedField(acr, field) == [alias |-> TRUE, val |-> acr[field]]

\* what getPosition, getRotation, getVelocity and getControls return:
\* { ...this.<field> }, a new object with the field's values
returned(acr, field) == [alias |-> FALSE, val |-> acr[field]]

\* Aircraft.getPosition / getRotation / getVelocity / getControls; getControls
\* first stores the engine's throttle in this.controls
DoGet(a, field) ==
    LET acr == IF field = "controls" THEN aircraftGetControls(ac[a]) ELSE ac[a]
        acNew == [ac EXCEPT ![a] = acr]
        r == returned(acr, field)
    IN  /\ Spend("aircraft", "set")
        /\ ac' = acNew
        /\ held' = [kind |-> field, a |-> a, alias |-> r.alias, val |-> r.val]
        /\ last' = [op |-> "get", a |-> a, field |-> field]
        /\ restTicks' = RestAfter(acNew, a, FALSE)
        /\ UNCHANGED <<arrays, pe, ap, now, host, uiVars>>

(***************************************************************************)
(* Operations on the PhysicsEngine                                         *)
(***************************************************************************)
Registered == DOMAIN pe.aircrafts

\* PhysicsEngine.registerAircraft(id, properties, initialState)
DoRegister(id, properties, initialState) ==
    LET entry == [properties |-> properties,
                  state |-> registeredState(initialState)]
        peNew == [pe EXCEPT !.aircrafts =
                     [k \in Registered \cup {id} |->
                         IF k = id THEN entry ELSE pe.aircrafts[k]]]
    IN  /\ Spend("physics", "set")
        /\ pe' = peNew
        /\ held' = HeldAfterPhysics(peNew, {id})
        /\ last' = [op |-> "register", id |-> id, initialState |-> initialState]
        /\ UNCHANGED <<ac, arrays, ap, now, restTicks, host, uiVars>>

\* PhysicsEngine.removeAircraft(id)
DoRemove(id) ==
    LET peNew == [pe EXCEPT !.aircrafts =
                     [k \in Registered \ {id} |-> pe.aircrafts[k]]]
    IN  /\ Spend("physics", "set")
        /\ pe' = peNew
        /\ held' = HeldAfterPhysics(peNew, {id})
        /\ last' = [op |-> "remove", id |-> id, result |-> id \in Registered]
        /\ UNCHANGED <<ac, arrays, ap, now, restTicks, host, uiVars>>

\* what getAircraftState returns for a registered aircraft: aircraft.state
returnedState(entry) == [alias |-> TRUE, val |-> entry.state]

\* PhysicsEngine.getAircraftState(id)
DoGetAircraftState(id) ==
    /\ Spend("physics", "set")
    /\ held' = IF id \in Registered
               THEN LET r == returnedState(pe.aircrafts[id])
                    IN  [kind |-> "state", id |-> id, alias |-> r.alias,
                         val |-> r.val]
               ELSE NoObject
    /\ last' = [op |-> "getAircraftState", id |-> id]
    /\ UNCHANGED <<ac, arrays, pe, ap, now, restTicks, host, uiVars>>

\* an operation that changes the state of the registered aircraft id in place
DoPhysicsSet(id, stateNew, op) ==
    LET peNew == IF id \in Registered
                 THEN [pe EXCEPT !.aircrafts[id].state = stateNew]
                 ELSE pe
    IN  /\ Spend("physics", "set")
        /\ pe' = peNew
        /\ held' = HeldAfterPhysics(peNew, {})
        /\ last' = op
        /\ UNCHANGED <<ac, arrays, ap, now, restTicks, host, uiVars>>

\* PhysicsEngine.updateControlInputs(id, controlInputs)
DoUpdateControlInputs(id, controlInputs) ==
    DoPhysicsSet(id,
                 IF id \in Registered
                 THEN updateControlInputs(pe.aircrafts[id].state, controlInputs)
                 ELSE <<>>,
                 [op |-> "updateControlInputs", id |-> id, arg |-> controlInputs])

\* PhysicsEngine.setThrottle(id, throttle)
DoPhysicsSetThrottle(id, throttle) ==
    DoPhysicsSet(id,
                 IF id \in Registered
                 THEN physicsSetThrottle(pe.aircrafts[id].state, throttle)
                 ELSE <<>>,
                 [op |-> "physicsSetThrottle", id |-> id, arg |-> throttle])

\* PhysicsEngine.updateStep(deltaTime): every registered aircraft advances
DoUpdateStep(dt) ==
    LET Stored(stepped, peNew) ==
            /\ pe' = peNew
            /\ held' = HeldAfterPhysics(peNew, {})
            /\ last' = [op |-> "updateStep", dt |-> dt,
                        integratedY |->
                            [id \in Registered |-> stepped[id].integratedY]]
        Stepped(stepped) ==
            Stored(stepped,
                   [pe EXCEPT !.aircrafts =
                       [id \in Registered |->
                           [pe.aircrafts[id] EXCEPT !.state = stepped[id].state]]])
    IN  /\ Spend("physics", "upd")
        /\ Stepped([id \in Registered |->
                       updateAircraft(pe.aircrafts[id].properties,
                                      pe.aircrafts[id].state, dt)])
        /\ UNCHANGED <<ac, arrays, ap, now, restTicks, host, uiVars>>


\* an operation of the physics engine that may request or cancel callbacks
DoSchedule(r, kind, op) ==
    /\ Spend("physics", kind)
    /\ pe' = r.pe
    /\ host' = r.host
    /\ held' = HeldAfterPhysics(r.pe, {})
    /\ last' = op
    /\ UNCHANGED <<ac, arrays, ap, restTicks, uiVars>>

\* PhysicsEngine.start()
DoStart ==
    /\ DoSchedule(physicsStart(pe, host, now), "set",
                  [op |-> "start", wasRunning |-> pe.isRunning])
    /\ now' = now

\* PhysicsEngine.stop()
DoStop ==
    /\ DoSchedule(physicsStop(pe, host), "set",
                  [op |-> "stop", pending |-> host.callbacks])
    /\ now' = now

\* PhysicsEngine.enableTestMode(enabled)
DoEnableTestMode(enabled) ==
    /\ DoSchedule([pe |-> enableTestMode(pe, enabled), host |-> host], "set",
                  [op |-> "enableTestMode", arg |-> enabled])
    /\ now' = now

\* the host runs the pending callback id, elapsed ms after the last event:
\* () => this.update()
DoFrame(id, elapsed) ==
    /\ id \in host.callbacks
    /\ DoSchedule(physicsUpdate(pe, [host EXCEPT !.callbacks = @ \ {id}],
                                now + elapsed),
                  "upd", [op |-> "frame", id |-> id])
    /\ now' = now + elapsed

(***************************************************************************)
(* A caller writing to the object it holds                                 *)
(***************************************************************************)
\* the field of the held object that the caller writes to
MutatedField(kind) ==
    CASE kind = "position" -> "x"
      [] kind = "velocity" -> "x"
      [] kind = "rotation" -> "pitch"
      [] kind = "controls" -> "elevator"
      [] kind = "state" -> "throttle"

\* the caller assigns value to a field of the object it holds; when the
\* object is the owner's, the owner's field is that field
DoMutateHeld(value) ==
    LET f == MutatedField(held.kind)
    IN  /\ held.kind # "none"
        /\ Spend("caller", "set")
        /\ held' = [held EXCEPT !.val[f] = value]
        /\ last' = [op |-> "mutateHeld", field |-> f, arg |-> value]
        /\ IF held.alias /\ held.kind \in AircraftKinds
           THEN ac' = [ac EXCEPT ![held.a][held.kind][f] = value]
           ELSE ac' = ac
        /\ IF held.alias /\ held.kind = "state"
           THEN pe' = [pe EXCEPT !.aircrafts[held.id].state[f] = value]
           ELSE pe' = pe
        /\ restTicks' = IF AtRest(ac'[1]) /\ restTicks >= 0 THEN restTicks
                        ELSE -1
        /\ UNCHANGED <<arrays, ap, now, host, uiVars>>

(***************************************************************************)
(* Operations on the AutopilotController                                   *)
(***************************************************************************)
\* an operation that changes only the autopilot
DoAutopilotSet(apNew, op) ==
    /\ Spend("autopilot", "set")
    /\ ap' = apNew
    /\ last' = op
    /\ UNCHANGED <<ac, arrays, pe, now, held, restTicks, host, uiVars>>

\* AutopilotController.setAircraft(id)
DoSetAircraft(id) ==
    DoAutopilotSet([ap EXCEPT !.aircraftId = <<id>>],
                   [op |-> "setAircraft", id |-> id])

\* AutopilotController.setMode(mode)
DoSetMode(mode) ==
    DoAutopilotSet(apSetMode(ap, mode),
                   [op |-> "setMode", arg |-> mode, before |-> ap])

\* AutopilotController.setTargetHeading(heading)
DoSetTargetHeading(heading) ==
    DoAutopilotSet(apSetTargetHeading(ap, heading),
                   [op |-> "setTargetHeading", arg |-> heading])

\* AutopilotController.setTargetWaypoint(waypoint)
DoSetTargetWaypoint(waypoint) ==
    DoAutopilotSet(apSetTargetWaypoint(ap, waypoint),
                   [op |-> "setTargetWaypoint", arg |-> waypoint])

\* AutopilotController.update(), called when performance.now() has advanced
\* by elapsed ms since the call before
DoAutopilotUpdate(elapsed) ==
    LET currentTime == now + elapsed
        deltaTime == [n |-> currentTime - ap.lastUpdateTime, d |-> 1000]
        found == ap.aircraftId # <<>> /\ ap.aircraftId[1] \in Registered
        id == ap.aircraftId[1]
        aircraftState == pe.aircrafts[id].state
        Stored(r, peNew) ==
            /\ ap' = [r.ap EXCEPT !.lastUpdateTime = currentTime]
            /\ pe' = peNew
            /\ held' = HeldAfterPhysics(peNew, {})
            /\ last' = [op |-> "autopilotUpdate", ran |-> TRUE,
                        before |-> ap, position |-> aircraftState.position,
                        heading |-> r.heading, headingPid |-> r.headingPid,
                        headingError |-> r.headingError,
                        deltaTime |-> deltaTime,
                        controlInputs |-> r.controlInputs,
                        throttle |-> r.throttle]
        Applied(r) ==
            Stored(r, [pe EXCEPT !.aircrafts[id].state =
                          physicsSetThrottle(
                              updateControlInputs(aircraftState, r.controlInputs),
                              r.throttle)])
    IN  /\ Spend("autopilot", "upd")
        /\ now' = currentTime
        /\ UNCHANGED <<ac, arrays, restTicks, host, uiVars>>
        /\ IF apInactive(ap) \/ ~found
           THEN /\ last' = [op |-> "autopilotUpdate", ran |-> FALSE]
                /\ UNCHANGED <<ap, pe, held>>
           ELSE IF deltaTime.n <= 0
           THEN /\ ap' = [ap EXCEPT !.lastUpdateTime = currentTime]
                /\ last' = [op |-> "autopilotUpdate", ran |-> FALSE]
                /\ UNCHANGED <<pe, held>>
           ELSE Applied(apControl(ap, aircraftState, deltaTime))

(***************************************************************************)
(* Operations on the application, and key events and calls of the          *)
(* InputHandler                                                            *)
(***************************************************************************)
\* an operation of the application on the host
DoApp(r, kind, op) ==
    /\ Spend("app", kind)
    /\ app' = r.app
    /\ host' = r.host
    /\ last' = op
    /\ UNCHANGED <<ac, arrays, pe, ap, now, held, restTicks, input,
                   inputMappings, gui>>

\* YSFlightWeb.start()
DoAppStart == DoApp(appStart(app, host), "set", [op |-> "appStart"])

\* YSFlightWeb.stop()
DoAppStop ==
    DoApp([app |-> appStop(app), host |-> host], "set", [op |-> "appStop"])

\* the host runs a pending callback of the application: () => this.mainLoop()
DoAppFrame ==
    /\ host.mainLoop > 0
    /\ DoApp([app |-> app,
              host |-> appMainLoop(app, [host EXCEPT !.mainLoop = @ - 1])],
             "upd", [op |-> "appFrame"])

\* an event or a call that the input handler handles
DoInput(r, kind, op) ==
    /\ Spend("input", kind)
    /\ input' = r.input
    /\ inputMappings' = r.objects
    /\ gui' = r.gui
    /\ ap' = r.ap
    /\ last' = op
    /\ UNCHANGED <<ac, arrays, pe, now, held, restTicks, host, app>>

\* a keydown event for key
DoKeyDown(key) ==
    DoInput([input |-> handleKeyDown(input, key), objects |-> inputMappings,
             gui |-> gui, ap |-> ap],
            "set", [op |-> "keydown", key |-> key])

\* a keyup event for key
DoKeyUp(key) ==
    DoInput([input |-> handleKeyUp(input, key), objects |-> inputMappings,
             gui |-> gui, ap |-> ap],
            "set", [op |-> "keyup", key |-> key])

\* InputHandler.update()
DoInputUpdate ==
    LET Updated(r) ==
            DoInput([input |-> r.input, objects |-> inputMappings,
                     gui |-> r.gui, ap |-> r.ap],
                    "upd", [op |-> "inputUpdate"])
    IN  Updated(inputUpdate(input, inputMappings, gui, ap))

\* InputHandler.remapKey(action, oldKey, newKey)
DoRemapKey(action, oldKey, newKey) ==
    LET Remapped(r) ==
            DoInput([input |-> r.input, objects |-> r.objects, gui |-> gui,
                     ap |-> ap],
                    "set", [op |-> "remapKey", action |-> action,
                            oldKey |-> oldKey, newKey |-> newKey,
                            result |-> r.result])
    IN  Remapped(remapKey(input, inputMappings, action, oldKey, newKey))

\* InputHandler.resetMappings()
DoResetMappings ==
    DoInput([input |-> resetMappings(input, inputMappings),
             objects |-> inputMappings, gui |-> gui, ap |-> ap],
            "set", [op |-> "resetMappings"])

(***************************************************************************)
(* Test-style runs: a few calls on one aircraft, or on the physics engine  *)
(***************************************************************************)
ControlInputs == {[elevator |-> 2000], [aileron |-> -1500, flaps |-> 1500],
                  [rudder |-> 500]}

ThrottleInputs == {-500, 500, 1500}

PositionInputs == {Vec(0, -5000, 0), Vec(0, 1000000, 0)}

\* level flight, a vertical fall, and a fall that is all but vertical
VelocityInputs == {Vec(50000, 0, 0), Vec(0, -10000, 0), Vec(50, -50000, 0)}

RotationInputs == {[pitch |-> 100, roll |-> 0, yaw |-> HalfPi]}

\* the partial initial states of the repository's tests; <<>> is {}
InitialStates ==
    {<<>>,
     [position |-> Vec(0, 1000000, 0)],
     [position |-> Vec(0, 1000000, 0), velocity |-> Vec(50000, 0, 0),
      throttle |-> 500]}

Init ==
    \/ \E arg \in EngineArgs :
           InitWith(<<arg>>, Budget({"aircraft"}, MaxOps, MaxOps, MaxOps))
    \/ InitWith(<<<<>>>>, Budget({"physics"}, MaxOps, MaxOps, MaxOps))

\* a time step of no length
DtZero == [n |-> 0, d |-> 1]

Update == \E dt \in DtSet \cup {DtZero} : DoUpdate(1, dt)

SetControls == \E c \in ControlInputs : DoSetControls(1, c)

SetThrottle == \E t \in ThrottleInputs : DoSetThrottle(1, t)

SetPosition == \E p \in PositionInputs : DoSetPosition(1, p)

SetVelocity == \E v \in VelocityInputs : DoSetVelocity(1, v)

SetRotation == \E r \in RotationInputs : DoSetRotation(1, r)

Register == \E id \in Ids, i \in InitialStates : DoRegister(id, TestProperties, i)

Remove == \E id \in Ids : DoRemove(id)

UpdateControlInputs ==
    \E id \in Ids, c \in ControlInputs : DoUpdateControlInputs(id, c)

PhysicsSetThrottle ==
    \E id \in Ids, t \in ThrottleInputs : DoPhysicsSetThrottle(id, t)

UpdateStep == \E dt \in DtSet : DoUpdateStep(dt)

Next ==
    \/ Update
    \/ SetControls
    \/ SetThrottle
    \/ SetPosition
    \/ SetVelocity
    \/ SetRotation
    \/ Register
    \/ Remove
    \/ UpdateControlInputs
    \/ PhysicsSetThrottle
    \/ UpdateStep

Spec == Init /\ [][Next]_vars

(***************************************************************************)
(* Frame-loop runs: update(1/60) every frame, and a few control changes    *)
(***************************************************************************)
InitRest ==
    \E arg \in EngineArgs :
        InitWith(<<arg>>, Budget({"aircraft"}, MaxTicks + MaxSets, MaxTicks,
                                 MaxSets))

Frame == DoUpdate(1, Dt60)

FrameSetThrottle == \E t \in {0, 1500} : DoSetThrottle(1, t)

FrameSetControls == \E c \in {[elevator |-> 0], [elevator |-> 500]} :
                        DoSetControls(1, c)

NextRest ==
    \/ Frame
    \/ FrameSetThrottle
    \/ FrameSetControls

SpecRest == InitRest /\ [][NextRest]_vars

(***************************************************************************)
(* Runs on two aircraft, constructed from the caller's record or from the  *)
(* default                                                                 *)
(***************************************************************************)
Fleet == {1, 2}

InitFleet ==
    \E rec \in {BladeRecord(0), BladeRecord(400000)} :
        \E first \in {<<>>, <<rec>>}, second \in {<<>>, <<rec>>} :
            InitWith(<<first, second>>,
                     Budget({"aircraft"}, MaxFleetOps, MaxFleetOps, MaxFleetOps))

FleetUpdate == \E a \in Fleet : DoUpdate(a, Dt60)

FleetSetThrottle == \E a \in Fleet : DoSetThrottle(a, S)

FleetSetControls == \E a \in Fleet : DoSetControls(a, [elevator |-> 500])

NextFleet ==
    \/ FleetUpdate
    \/ FleetSetThrottle
    \/ FleetSetControls

SpecFleet == InitFleet /\ [][NextFleet]_vars

(***************************************************************************)
(* Runs of a caller that reads state back, keeps the object it was given   *)
(* and writes to it                                                        *)
(***************************************************************************)
InitAccess ==
    InitWith(<<<<>>>>, Budget({"aircraft", "physics", "caller"}, MaxAccessOps,
                              MaxAccessOps, MaxAccessOps))

Get == \E f \in AircraftKinds : DoGet(1, f)

GetAircraftState == \E id \in Ids : DoGetAircraftState(id)

MutateHeld == DoMutateHeld(250)

AccessFrame == DoUpdate(1, Dt60)

AccessSetPosition == DoSetPosition(1, Vec(0, 1000000, 0))

AccessSetThrottle == DoSetThrottle(1, 500)

AccessRegister == \E id \in Ids : DoRegister(id, TestProperties, <<>>)

AccessPhysicsSetThrottle == \E id \in Ids : DoPhysicsSetThrottle(id, 750)

AccessUpdateStep == DoUpdateStep(Dt60)

NextAccess ==
    \/ Get
    \/ GetAircraftState
    \/ MutateHeld
    \/ AccessFrame
    \/ AccessSetPosition
    \/ AccessSetThrottle
    \/ AccessRegister
    \/ AccessPhysicsSetThrottle
    \/ AccessUpdateStep

SpecAccess == InitAccess /\ [][NextAccess]_vars

(***************************************************************************)
(* Autopilot runs                                                          *)
(***************************************************************************)
Modes == {"OFF", "HEADING_HOLD", "ALTITUDE_HOLD", "NAVIGATION", "APPROACH",
          "FULL"}

\* an aircraft heading 359 degrees, and one heading 90 degrees at altitude
\* whose pilot holds elevator, rudder and throttle
AutopilotInitialStates ==
    {[rotation |-> Vec(0, -17, 0)],
     [position |-> Vec(0, 300000, 0), rotation |-> Vec(0, HalfPi, 0),
      velocity |-> Vec(50000, 0, 0), throttle |-> 500,
      controlInputs |-> [elevator |-> 500, aileron |-> -250, rudder |-> 250]]}

HeadingInputs == {1000, 270000}

WaypointInputs == {<<>>, <<Vec(1000000, 0, 0)>>}

\* ms between two calls of update: none, a frame, a tenth of a second
ElapsedInputs == {0, 16, 100}

InitAutopilot ==
    InitWith(<<<<>>>>, Budget({"physics", "autopilot"}, MaxApOps, MaxApOps,
                              MaxApOps))

AutopilotRegister ==
    \E id \in Ids, i \in AutopilotInitialStates :
        DoRegister(id, TestProperties, i)

SetAircraft == \E id \in Ids : DoSetAircraft(id)

SetMode == \E m \in Modes : DoSetMode(m)

SetTargetHeading == \E h \in HeadingInputs : DoSetTargetHeading(h)

SetTargetWaypoint == \E w \in WaypointInputs : DoSetTargetWaypoint(w)

AutopilotUpdate == \E e \in ElapsedInputs : DoAutopilotUpdate(e)

AutopilotUpdateStep == DoUpdateStep(Dt60)

NextAutopilot ==
    \/ AutopilotRegister
    \/ SetAircraft
    \/ SetMode
    \/ SetTargetHeading
    \/ SetTargetWaypoint
    \/ AutopilotUpdate
    \/ AutopilotUpdateStep

SpecAutopilot == InitAutopilot /\ [][NextAutopilot]_vars

(***************************************************************************)
(* Scheduling runs: start, stop, test mode, frames and manual steps        *)
(***************************************************************************)
InitSchedule ==
    /\ InitWith(<<<<>>>>, Budget({"physics"}, MaxScheduleOps, MaxScheduleOps,
                              MaxScheduleOps))
    \/ /\ ac = [a \in {1} |-> newAircraft(<<>>, <<>>, a)]
       /\ arrays = ArraysFor(<<<<>>>>)
       /\ pe = newPhysicsEngine
       /\ ap = newAutopilot
       /\ now = 0
       /\ held = NoObject
       /\ last = [op |-> "construct"]
       /\ restTicks = 0
       /\ budget = Budget({"physics"}, MaxScheduleOps, MaxScheduleOps,
                          MaxScheduleOps)
       /\ host = BrowserHost
       /\ InitUi

ScheduleRegister ==
    \E id \in Ids : DoRegister(id, TestProperties,
                               [position |-> Vec(0, 1000000, 0),
                                velocity |-> Vec(50000, 0, 0), throttle |-> 500])

Start == DoStart

Stop == DoStop

EnableTestMode == \E enabled \in BOOLEAN : DoEnableTestMode(enabled)

\* a requested callback runs 16 ms after the event before it
Frame16 == \E id \in host.callbacks : DoFrame(id, 16)

ScheduleUpdateStep == \E dt \in DtSet : DoUpdateStep(dt)

NextSchedule ==
    \/ ScheduleRegister
    \/ Start
    \/ Stop
    \/ EnableTestMode
    \/ Frame16
    \/ ScheduleUpdateStep

SpecSchedule == InitSchedule /\ [][NextSchedule]_vars

(***************************************************************************)
(* Runs at altitude: an aircraft is put at a height of the density table   *)
(* and flies on from there                                                 *)
(***************************************************************************)
\* heights in millimetres: the 4000 m entries of rhoTab, a millimetre to
\* either side of each, and the middle of each segment
Altitudes ==
    {h \in {4000000 * k + d : k \in 0..5, d \in {-1, 0, 1, 2000000}} :
        h >= 0 /\ h <= 20000000}

InitClimb ==
    InitWith(<<<<>>>>, Budget({"aircraft"}, MaxClimbOps, MaxClimbOps, 1))

ClimbSetPosition == \E h \in Altitudes : DoSetPosition(1, Vec(0, h, 0))

ClimbUpdate == \E dt \in DtSet : DoUpdate(1, dt)

NextClimb ==
    \/ ClimbSetPosition
    \/ ClimbUpdate

SpecClimb == InitClimb /\ [][NextClimb]_vars

(***************************************************************************)
(* Runs of an engine on blades the caller made: blades of the default      *)
(* shape, without weight, or with their centre of gravity on the axis      *)
(***************************************************************************)
GivenBlades(weight, gravityCenter) ==
    [k \in 1..2 |-> [NewBlade(k - 1) EXCEPT !.weight = weight,
                                            !.gravityCenter = gravityCenter]]

InitInertia ==
    \E rec \in {BladeRecord(0), BladeRecord(400000)} :
        \E weight \in {0, 10000}, gravityCenter \in {0, 600} :
            /\ ac = [a \in {1} |->
                        newAircraft(<<rec>>, GivenBlades(weight, gravityCenter), a)]
            /\ arrays = [r \in 0..2 |->
                            IF r = 0 THEN GivenBlades(weight, gravityCenter)
                            ELSE <<>>]
            /\ pe = newPhysicsEngine
            /\ ap = newAutopilot
            /\ now = 0
            /\ held = NoObject
            /\ last = [op |-> "construct"]
            /\ restTicks = -1
            /\ budget = Budget({"aircraft"}, MaxInertiaOps, MaxInertiaOps,
                               MaxInertiaOps)
            /\ host = NodeHost
            /\ InitUi

InertiaUpdate == \E dt \in DtSet : DoUpdate(1, dt)

InertiaSetThrottle == \E t \in {0, S} : DoSetThrottle(1, t)

NextInertia ==
    \/ InertiaUpdate
    \/ InertiaSetThrottle

SpecInertia == InitInertia /\ [][NextInertia]_vars

(***************************************************************************)
(* Runs on the registry of the physics engine: two aircraft ids are        *)
(* registered, looked up and removed in any order                          *)
(***************************************************************************)
RegistryIds == {"a1", "a2"}

InitRegistry ==
    InitWith(<<<<>>>>, Budget({"physics"}, MaxRegistryOps, 1, MaxRegistryOps))

RegistryRegister ==
    \E id \in RegistryIds :
        \E i \in {<<>>, [position |-> Vec(0, 1000000, 0),
                         velocity |-> Vec(50000, 0, 0)]} :
            DoRegister(id, TestProperties, i)

RegistryRemove == \E id \in RegistryIds : DoRemove(id)

RegistryGetAircraftState == \E id \in RegistryIds : DoGetAircraftState(id)

RegistryUpdateStep == DoUpdateStep(Dt60)

NextRegistry ==
    \/ RegistryRegister
    \/ RegistryRemove
    \/ RegistryGetAircraftState
    \/ RegistryUpdateStep

SpecRegistry == InitRegistry /\ [][NextRegistry]_vars

(***************************************************************************)
(* Runs of the two loops in a browser: the application and the physics     *)
(* engine are started and stopped, and the host runs pending callbacks     *)
(***************************************************************************)
InitLoops ==
    /\ ac = [a \in {1} |-> newAircraft(<<>>, <<>>, a)]
    /\ arrays = ArraysFor(<<<<>>>>)
    /\ pe = newPhysicsEngine
    /\ ap = newAutopilot
    /\ now = 0
    /\ held = NoObject
    /\ last = [op |-> "construct"]
    /\ restTicks = 0
    /\ budget = Budget({"physics", "app"}, MaxLoopOps, MaxLoopOps, MaxLoopOps)
    /\ host = BrowserHost
    /\ InitUi

LoopStart == DoStart

LoopStop == DoStop

LoopFrame == \E id \in host.callbacks : DoFrame(id, 16)

AppStart == DoAppStart

AppStop == DoAppStop

AppFrame == DoAppFrame

NextLoops ==
    \/ LoopStart
    \/ LoopStop
    \/ LoopFrame
    \/ AppStart
    \/ AppStop
    \/ AppFrame

SpecLoops == InitLoops /\ [][NextLoops]_vars

(***************************************************************************)
(* Runs of the input handler: key events, updates, remapping and reset     *)
(***************************************************************************)
\* the keys of the events: the pause key, a pitch key, the autopilot key,
\* and a key that no default mapping uses
InputKeys == {"Escape", "s", "p", "F1"}

InitInput ==
    InitWith(<<<<>>>>, Budget({"input"}, MaxInputOps, MaxInputOps, MaxInputOps))

KeyDown == \E key \in InputKeys : DoKeyDown(key)

KeyUp == \E key \in InputKeys : DoKeyUp(key)

InputUpdate == DoInputUpdate

RemapKey ==
    \E action \in {"pause", "pitch_up"}, oldKey \in {"Escape", "s"} :
        DoRemapKey(action, oldKey, "F1")

ResetMappings == DoResetMappings

NextInput ==
    \/ KeyDown
    \/ KeyUp
    \/ InputUpdate
    \/ RemapKey
    \/ ResetMappings

SpecInput == InitInput /\ [][NextInput]_vars

(***************************************************************************)
(* Properties of the control and throttle setters, of ground contact and   *)
(* of the blade angles, checked on Spec                                    *)
(***************************************************************************)
\* C1: after any control setter (Aircraft.setControls,
\* PhysicsEngine.updateControlInputs) the stored elevator, aileron and rudder
\* are in [-1, 1] and the stored flaps in [0, 1].
C1_ControlsInRange ==
    /\ \A a \in DOMAIN ac :
           /\ ac[a].controls.elevator \in -S..S
           /\ ac[a].controls.aileron \in -S..S
           /\ ac[a].controls.rudder \in -S..S
           /\ ac[a].controls.flaps \in 0..S
    /\ \A id \in DOMAIN pe.aircrafts :
           /\ pe.aircrafts[id].state.controlInputs.elevator \in -S..S
           /\ pe.aircrafts[id].state.controlInputs.aileron \in -S..S
           /\ pe.aircrafts[id].state.controlInputs.rudder \in -S..S
           /\ pe.aircrafts[id].state.controlInputs.flaps \in 0..S

\* C2: after an update whose position integration gave a height below 0, the
\* height is 0 and the vertical speed is 0; after every update the height is
\* at least 0. The same holds for every aircraft of the physics engine after
\* updateStep.
C2_GroundContact ==
    /\ last.op = "update" =>
           /\ ac[last.a].position.y >= 0
           /\ last.integratedY < 0 =>
                  ac[last.a].position.y = 0 /\ ac[last.a].velocity.y = 0
           /\ last.integratedY >= 0 => ac[last.a].position.y = last.integratedY
    /\ last.op = "updateStep" =>
           \A id \in DOMAIN last.integratedY :
               /\ pe.aircrafts[id].state.position.y >= 0
               /\ last.integratedY[id] < 0 =>
                      /\ pe.aircrafts[id].state.position.y = 0
                      /\ pe.aircrafts[id].state.velocity.y = 0

\* an update of a descending aircraft has integrated a height below the ground
C2_Landed ==
    /\ last.op = "update"
    /\ last.integratedY < -S
    /\ ac[last.a].position.y = 0
    /\ ac[last.a].velocity.y = 0

\* C5: every blade angle is in [0, 2*pi) after construction and after every
\* PropellerEngine.update, for any time step and any signed angular rate.
C5_BladeAngleInRange ==
    \A r \in DOMAIN arrays :
        \A k \in DOMAIN arrays[r] :
            0 <= arrays[r][k].state.angle /\ arrays[r][k].state.angle < TwoPi

\* C8: after setThrottle(x) the stored throttle is min(1, max(0, x)) and the
\* throttle read back is in [0, 1]; 1.5 gives 1.0 and -0.5 gives 0.0. This
\* holds for Aircraft.setThrottle and for PhysicsEngine.setThrottle.
C8_ThrottleClamped ==
    /\ last.op = "setThrottle" =>
           LET x == last.arg
               expected == IF x < 0 THEN 0 ELSE IF x > S THEN S ELSE x
           IN  /\ ac[last.a].engine.throttle = expected
               /\ ac[last.a].controls.throttle = expected
               /\ aircraftGetControls(ac[last.a]).controls.throttle \in 0..S
               /\ x = 1500 => ac[last.a].engine.throttle = 1000
               /\ x = -500 => ac[last.a].engine.throttle = 0
    /\ last.op = "physicsSetThrottle" /\ last.id \in DOMAIN pe.aircrafts =>
           LET x == last.arg
               expected == IF x < 0 THEN 0 ELSE IF x > S THEN S ELSE x
           IN  /\ pe.aircrafts[last.id].state.throttle = expected
               /\ pe.aircrafts[last.id].state.throttle \in 0..S

\* setThrottle(1.5) has stored 1.0
C8_ClampedFromAbove ==
    /\ last.op = "setThrottle"
    /\ last.arg = 1500
    /\ ac[last.a].controls.throttle = S

(***************************************************************************)
(* Independence of two aircraft, checked on SpecFleet                      *)
(***************************************************************************)
\* C6: two separately constructed aircraft share no mutable state: an
\* operation on one aircraft changes nothing of the other, its engine and
\* its propeller blades included, also when both were constructed from the
\* same engine-characteristics record with blade data.
C6_Independent ==
    [][\A a \in Fleet :
           last'.a # a =>
               /\ ac'[a] = ac[a]
               /\ arrays'[ac[a].engine.propellerBlades]
                      = arrays[ac[a].engine.propellerBlades]]_vars

(***************************************************************************)
(* Objects returned by accessors, checked on SpecAccess                    *)
(***************************************************************************)
\* C7 (as amended): getPosition, getRotation, getVelocity and getControls
\* return copies: writing to a returned object changes neither the aircraft
\* nor the physics engine, and a later update or setter leaves the returned
\* object as it was. PhysicsEngine.getAircraftState returns the engine's own
\* state object: until the aircraft is registered again or removed, a later
\* setThrottle or update step on that aircraft shows in it, and a write to it
\* is a write to the engine's state.
C7_AircraftAccessorsCopy ==
    [][/\ held.kind \in AircraftKinds =>
              /\ last'.op = "mutateHeld" => ac' = ac /\ pe' = pe
              /\ last'.op \notin {"mutateHeld", "get", "getAircraftState"} =>
                     held' = held
       /\ held.kind = "state" /\ held.alias
              /\ last'.op \in {"physicsSetThrottle", "updateStep", "mutateHeld"} =>
              held'.val = pe'.aircrafts[held.id].state]_vars

\* a position that was returned before setPosition still has the old value
C7_CopyKept ==
    /\ held.kind = "position"
    /\ last.op = "setPosition"
    /\ held.val # ac[1].position

\* C7 (as stated): every accessor, the physics engine's state retrieval
\* included, returns a copy: writing to a returned object changes no internal
\* state, and a later update or setter never changes a returned object.
C7_AllAccessorsCopy ==
    [][held.kind # "none" =>
           /\ last'.op = "mutateHeld" => ac' = ac /\ pe' = pe
           /\ last'.op \notin {"mutateHeld", "get", "getAircraftState"} =>
                  held' = held]_vars

(***************************************************************************)
(* An aircraft at rest, checked on SpecRest                                *)
(***************************************************************************)
\* C9: an aircraft at rest on the ground with the engine stopped, throttle 0
\* and neutral controls has, after each of 10 consecutive update(1/60)
\* calls, height 0 and a speed near zero.
C9_StaysAtRest ==
    restTicks \in 1..10 =>
        /\ ac[1].position.y = 0
        /\ ac[1].velocity.y = 0
        /\ VecLen(ac[1].velocity) <= NearZero

\* the tenth update of an aircraft that started at rest
C9_TenthTick ==
    /\ restTicks = 10
    /\ last.op = "update"
    /\ ac[1].controls.throttle = 0

(***************************************************************************)
(* Autopilot, checked on SpecAutopilot                                     *)
(***************************************************************************)
\* C3: in NAVIGATION mode with a waypoint set, the target heading is
\* recomputed from the bearing to the waypoint before the heading PID runs:
\* the error the PID gets on a tick is the error against that tick's bearing.
C3_BearingBeforePid ==
    last.op = "autopilotUpdate" /\ last.ran /\ last.before.mode = "NAVIGATION"
        /\ last.before.settings.targetWaypoint # <<>> =>
        LET bearing == waypointHeading(last.before.settings.targetWaypoint[1],
                                       last.position)
            d == bearing - last.heading
        IN  last.headingError = IF d > 180000 THEN d - 360000
                                ELSE IF d < -180000 THEN d + 360000
                                ELSE d

\* C4: after setMode(m) with m different from the current mode, all three
\* PID controllers are reset: the next compute of each gives what a freshly
\* constructed controller with the same gains gives.
C4_SetModeResets ==
    last.op = "setMode" /\ last.arg # last.before.mode =>
        /\ ap.mode = last.arg
        /\ \A c \in {"headingController", "altitudeController", "speedController"} :
               \A error \in {-20000, 5000}, dt \in DtSet :
                   pidCompute(ap[c], error, dt)
                       = pidCompute(newAutopilot[c], error, dt)

\* a mode change when the heading controller had accumulated state
C4_ResetAfterUse ==
    /\ last.op = "setMode"
    /\ last.arg # last.before.mode
    /\ last.before.headingController.integral # 0
    /\ last.before.headingController.previousError # 0
    /\ ap.headingController.integral = 0

\* C10: the heading error is target - current, adjusted by 360 degrees at
\* most once so that it is in [-180, 180]: the controller turns the shorter
\* way. With current 359 and target 1 the error is +2.
C10_ShorterWay ==
    last.op = "autopilotUpdate" /\ last.ran /\ last.headingPid =>
        LET d == last.before.settings.targetHeading - last.heading
            e == IF d > 180000 THEN d - 360000
                 ELSE IF d < -180000 THEN d + 360000
                 ELSE d
        IN  /\ last.headingError = e
            /\ last.headingError \in -180000..180000
            /\ last.headingError - d \in {-360000, 0, 360000}

\* heading 359 degrees, target 1 degree: the error is +2 degrees
C10_AcrossNorth ==
    /\ last.op = "autopilotUpdate"
    /\ last.ran
    /\ last.headingPid
    /\ last.heading \in 359000..359999
    /\ last.before.settings.targetHeading = 1000
    /\ last.headingError \in 1001..2000

\* C11: while the mode is OFF, update() does nothing: the autopilot (targets,
\* PID integrals and previous errors, time of the last update) and the state
\* of every registered aircraft are after the call what they were before it.
C11_OffDoesNothing ==
    [][last'.op = "autopilotUpdate" /\ ap.mode = "OFF" =>
           ap' = ap /\ pe' = pe /\ ~last'.ran]_vars

\* an update in mode OFF with a registered aircraft set and time elapsed
C11_OffTick ==
    /\ last.op = "autopilotUpdate"
    /\ ap.mode = "OFF"
    /\ ap.aircraftId # <<>>
    /\ ap.aircraftId[1] \in Registered
    /\ now > ap.lastUpdateTime

\* C24: the first update() in an active mode, and every update that
\* measures no time since the update before, is skipped: it computes no PID
\* and writes neither controls nor throttle, so the autopilot keeps all but
\* the time of its last update and the physics engine keeps everything.
C24_FirstTickSkipped ==
    [][/\ last'.op = "autopilotUpdate"
       /\ ~apInactive(ap)
       /\ ap.aircraftId[1] \in Registered
       /\ budget.upd = MaxApOps \/ now' <= ap.lastUpdateTime
       => /\ ~last'.ran
          /\ pe' = pe
          /\ [ap' EXCEPT !.lastUpdateTime = ap.lastUpdateTime] = ap]_vars

\* C29: an update of the autopilot that runs writes only the outputs of its
\* mode: in HEADING_HOLD and NAVIGATION the elevator and the throttle of the
\* aircraft stay as they were, in ALTITUDE_HOLD and APPROACH the aileron and
\* the throttle do, and in no mode does the rudder change.
C29_OnlyModeOutputs ==
    [][last'.op = "autopilotUpdate" /\ last'.ran =>
           LET before == pe.aircrafts[ap.aircraftId[1]].state
               after == pe'.aircrafts[ap.aircraftId[1]].state
           IN  /\ ap.mode \in {"HEADING_HOLD", "NAVIGATION"} =>
                      /\ after.controlInputs.elevator = before.controlInputs.elevator
                      /\ after.throttle = before.throttle
               /\ ap.mode \in {"ALTITUDE_HOLD", "APPROACH"} =>
                      /\ after.controlInputs.aileron = before.controlInputs.aileron
                      /\ after.throttle = before.throttle
               /\ after.controlInputs.rudder = before.controlInputs.rudder]_vars

\* C12: every PID compute returns a value within its output bounds, whatever
\* integral it has accumulated; the aileron and elevator an update writes are
\* in [-1, 1] and the throttle it writes is in [0, 1].
C12_OutputsInRange ==
    /\ \A c \in {"headingController", "altitudeController", "speedController"} :
           \A error \in {-180000, -20000, 0, 5000, 180000}, dt \in DtSet :
               pidCompute(ap[c], error, dt).output
                   \in ap[c].outputMin..ap[c].outputMax
    /\ last.op = "autopilotUpdate" /\ last.ran =>
           /\ last.controlInputs.aileron \in -S..S
           /\ last.controlInputs.elevator \in -S..S
           /\ last.before.mode = "FULL" => last.throttle \in 0..S
           /\ LET state == pe.aircrafts[last.before.aircraftId[1]].state
              IN  /\ state.controlInputs.aileron \in -S..S
                  /\ state.controlInputs.elevator \in -S..S
                  /\ state.throttle \in 0..S

\* an update whose heading PID was held at a bound of its output
C12_Saturated ==
    /\ last.op = "autopilotUpdate"
    /\ last.ran
    /\ last.headingPid
    /\ Abs(last.controlInputs.aileron) = S
    /\ ap.headingController.integral # 0

(***************************************************************************)
(* The engine and the aerodynamics of an Aircraft, checked on Spec         *)
(***************************************************************************)
\* C13: the propulsion mode follows from whether the engine was constructed
\* with blade data: without it the engine updates its RPM in simple mode and
\* its thrust is maxThrust * throttle, with it both use the blade elements,
\* and update and getThrust never differ in the mode they use.
C13_ModeByBladeData ==
    last.op \in {"update", "setThrottle"} =>
        LET ch == ac[last.a].engine
            given == ch.propellerBlades = 0
        IN  /\ updatesBlades(ch, Blades(last.a)) = given
            /\ thrustFromBlades(Blades(last.a)) = given
            /\ ~given => getThrust(ch, Blades(last.a))
                             = FMul(ch.maxThrust, ch.throttle)

\* C14: in blade-element mode the angular rate after an update is a real
\* number for every time step >= 0 and every signed rate before it; a
\* negative kinetic energy gives the rate of opposite sign whose magnitude
\* is the square root taken from the energy's magnitude.
C14_RateIsReal ==
    /\ \A a \in DOMAIN ac : ac[a].engine.radianPerSec # NaN
    /\ \A sign \in {-1, 1}, energy \in {-7200000, -200, 0, 200, 7200000} :
           LET rate == energyToRate(sign, energy, 7200)
           IN  /\ rate # NaN
               /\ energy < 0 => rate = -sign * Sqrt(FDiv(2 * Abs(energy), 7200))
               /\ energy >= 0 => rate = sign * Sqrt(FDiv(2 * energy, 7200))

\* an engine that stood still has been given energy: with no rate the sign is
\* -1, the new energy is negative, and the rate comes out positive
C14_StartedFromStandstill ==
    /\ last.op = "update"
    /\ last.rateBefore = 0
    /\ last.dt.n > 0
    /\ ac[last.a].engine.radianPerSec > 0

\* C15: after every update the RPM that getCurrentRPM reports is
\* abs(radianPerSec) * 60 / (2 * pi), with no rate counting as rate 0, and
\* it is never negative.
C15_ReportedRpm ==
    last.op = "update" =>
        LET ch == ac[last.a].engine
            rate == IF ch.radianPerSec = Undefined THEN 0 ELSE ch.radianPerSec
        IN  /\ ch.currentRPM = Abs(MulDiv(rate, 60000, TwoPi))
            /\ ch.currentRPM >= 0

\* C16: every blade's pitch is within the blade's [minPitch, maxPitch] after
\* construction and after every update.
C16_PitchWithinLimits ==
    \A r \in DOMAIN arrays :
        \A k \in DOMAIN arrays[r] :
            /\ arrays[r][k].minPitch <= arrays[r][k].state.pitch
            /\ arrays[r][k].state.pitch <= arrays[r][k].maxPitch

\* an update after which the governor holds a blade at a pitch limit
C16_HeldAtLimit ==
    /\ last.op = "update"
    /\ ac[last.a].engine.radianPerSec # Undefined
    /\ \E k \in DOMAIN Blades(last.a) :
           Blades(last.a)[k].state.pitch
               \in {Blades(last.a)[k].minPitch, Blades(last.a)[k].maxPitch}

\* the forces AerodynamicsModel.calculateForces gives for aircraft acr as it is
wingForces(acr) ==
    aeroCalculateForces(acr.aerodynamics, acr.velocity, acr.rotation,
                        acr.controls, getAirDensity(acr.position.y))

\* the lift direction of calculateForces before it is normalized: the
\* horizontal components of the unit velocity, turned by a right angle
wingLiftDirection(velocity) ==
    Vec(FDiv(velocity.z, VecLen(velocity)), 0, -FDiv(velocity.x, VecLen(velocity)))

\* C17: when the lift direction of the wing has a length at or below the
\* near-zero threshold 0.001, the lift returned is exactly the zero vector.
C17_DegenerateGivesZero ==
    \A a \in DOMAIN ac :
        /\ ~velocityNegligible(VecLen(ac[a].velocity))
        /\ VecLen(wingLiftDirection(ac[a].velocity)) <= 1
        => wingForces(ac[a]).lift = ZeroVec

\* airspeeds below the physics engine's threshold of 0.1 m/s
SlowVelocities == {ZeroVec, Vec(50, 0, 0), Vec(0, -99, 0), Vec(-40, 40, 40)}

\* C18: with no velocity, or a speed below the model's near-zero threshold,
\* the aerodynamic forces are all zero whatever the attitude, the control
\* deflections and the air density: lift, drag and moments of the wing,
\* and lift, drag and side force of a registered aircraft.
C18_NoForceWithoutAirspeed ==
    /\ \A a \in DOMAIN ac :
           VecLen(ac[a].velocity) < 1 =>
               wingForces(ac[a]) = [lift |-> ZeroVec, drag |-> ZeroVec,
                                    moments |-> ZeroAttitude]
    /\ \A id \in Registered :
           \A v \in SlowVelocities \cup {pe.aircrafts[id].state.velocity} :
               VecLen(v) < NearZero =>
                   calculateAerodynamicForces(
                       pe.aircrafts[id].properties,
                       [pe.aircrafts[id].state EXCEPT !.velocity = v])
                       = [lift |-> ZeroVec, drag |-> ZeroVec,
                          sideForce |-> ZeroVec]

\* a registered aircraft without velocity whose controls are deflected
C18_StandingDeflected ==
    /\ last.op = "updateControlInputs"
    /\ \E id \in Registered :
           /\ pe.aircrafts[id].state.velocity = ZeroVec
           /\ pe.aircrafts[id].state.controlInputs.elevator # 0

\* the lift coefficient calculateForces uses for aircraft acr as it is
wingLiftCoefficient(acr) ==
    getLiftCoefficient(
        acr.aerodynamics,
        Acos(Clamp(-S, S,
                   VecDot(Vec(FMul(Cos(acr.rotation.yaw), Cos(acr.rotation.pitch)),
                              Sin(acr.rotation.pitch),
                              FMul(Sin(acr.rotation.yaw), Cos(acr.rotation.pitch))),
                          VecDivide(acr.velocity, VecLen(acr.velocity))))))

\* C19: for a velocity that is not negligible the wing's lift is perpendicular
\* to the velocity (to within a hundredth of its length) and points upward:
\* in level flight with a positive lift coefficient its y component is
\* positive.
C19_LiftUpward ==
    \A a \in DOMAIN ac :
        VecLen(ac[a].velocity) >= 1 =>
            /\ 100 * Abs(VecDot(wingForces(ac[a]).lift,
                                VecDivide(ac[a].velocity, VecLen(ac[a].velocity))))
                   <= VecLen(wingForces(ac[a]).lift) + 100
            /\ ac[a].velocity.y = 0 /\ wingLiftCoefficient(ac[a]) > 0 =>
                   wingForces(ac[a]).lift.y > 0

(***************************************************************************)
(* Manual steps and scheduling, checked on SpecSchedule                    *)
(***************************************************************************)
\* C20: updateStep(dt) advances every registered aircraft by one integration
\* step of dt at once, running or not, and requests no callback and changes
\* nothing else of the engine; in test mode start() requests no callback,
\* and no step taken in test mode adds a pending callback; the aircraft
\* change only in a call or in a callback that was pending.
C20_ManualStep ==
    [][/\ last'.op = "updateStep" =>
              /\ host' = host
              /\ [pe' EXCEPT !.aircrafts = pe.aircrafts] = pe
              /\ DOMAIN pe'.aircrafts = Registered
              /\ \A id \in Registered :
                     pe'.aircrafts[id]
                         = [pe.aircrafts[id] EXCEPT !.state =
                               updateAircraft(pe.aircrafts[id].properties,
                                              pe.aircrafts[id].state,
                                              last'.dt).state]
       /\ last'.op = "start" /\ pe.isTestMode => host' = host
       /\ pe.isTestMode => host'.callbacks \subseteq host.callbacks
       /\ pe'.aircrafts # pe.aircrafts =>
              \/ last'.op \in {"register", "remove", "updateStep", "start"}
              \/ last'.op = "frame" /\ last'.id \in host.callbacks]_vars

\* the run of the repository's test: test mode, start, then a manual step
\* that moves the aircraft while no callback is pending
C20_SteppedInTestMode ==
    /\ last.op = "updateStep"
    /\ pe.isRunning
    /\ pe.isTestMode
    /\ host.callbacks = {}
    /\ \E id \in Registered : pe.aircrafts[id].state.position.x > 0

(***************************************************************************)
(* The density table, checked on SpecClimb                                 *)
(***************************************************************************)
\* C21: between 0 and 20000 m the air density never rises with height: of
\* two heights of the table's range the lower has at least the density of
\* the higher, for the heights at and around the table's entries and for
\* the height the aircraft flies at.
C21_DensityNonIncreasing ==
    LET InRange(h) == h >= 0 /\ h <= 20000000
        Ordered(a1, a2) ==
            InRange(a1) /\ InRange(a2) /\ a1 < a2 =>
                getAirDensity(a1) >= getAirDensity(a2)
    IN  /\ \A a1, a2 \in Altitudes : Ordered(a1, a2)
        /\ \A h \in Altitudes :
               /\ Ordered(ac[1].position.y, h)
               /\ Ordered(h, ac[1].position.y)

\* the aircraft has sunk from an entry of the table into the segment below
C21_SunkBelowEntry ==
    /\ last.op = "update"
    /\ ac[1].position.y \notin Altitudes
    /\ \E k \in 1..5 : /\ ac[1].position.y < 4000000 * k
                       /\ ac[1].position.y > 4000000 * k - 1000000

(***************************************************************************)
(* The divisor of the blade integration, checked on SpecInertia            *)
(***************************************************************************)
\* C22: the moment of inertia the torque and the energy are divided by is
\* never near zero: a sum of the blades below the threshold is replaced by
\* 1.0, any other sum is used as it is, and the rate an update leaves is a
\* number, also on blades without weight or without radius.
C22_InertiaFloored ==
    LET Floored(sum) ==
            /\ inertiaDivisor(sum) >= 1
            /\ sum < 1 => inertiaDivisor(sum) = S
            /\ sum >= 1 => inertiaDivisor(sum) = sum
    IN  /\ \A sum \in {-7200, 0, 1, 7200} : Floored(sum)
        /\ Floored(bladeInertia(Blades(1)))
        /\ last.op = "update" => ac[1].engine.radianPerSec # NaN

\* blades without inertia have been driven: the rate of the engine changed
C22_WeightlessDriven ==
    /\ last.op = "update"
    /\ bladeInertia(Blades(1)) = 0
    /\ last.rateBefore # Undefined
    /\ ac[1].engine.radianPerSec # last.rateBefore

(***************************************************************************)
(* The registry of aircraft, checked on SpecRegistry                       *)
(***************************************************************************)
\* C23: getAircraftState(id) returns a state exactly when id is registered:
\* an id becomes registered by registerAircraft only and stops being so by
\* removeAircraft only; a registration stores the position it was given
\* (the origin when it was given none), and a lookup that follows it returns
\* a state with that position; removeAircraft returns true exactly for a
\* registered id, and leaves the id unregistered.
C23_RegisteredExactly ==
    [][/\ last'.op = "getAircraftState" =>
              /\ held'.kind = "state" <=> last'.id \in Registered
              /\ held'.kind # "state" => held' = NoObject
              /\ held'.kind = "state" =>
                     held'.val = pe.aircrafts[last'.id].state
              /\ last.op = "register" /\ last.id = last'.id =>
                     held'.val.position
                         = IF "position" \in DOMAIN last.initialState
                           THEN last.initialState.position ELSE ZeroVec
       /\ last'.op = "register" =>
              /\ DOMAIN pe'.aircrafts = Registered \cup {last'.id}
              /\ pe'.aircrafts[last'.id].state.position
                     = IF "position" \in DOMAIN last'.initialState
                       THEN last'.initialState.position ELSE ZeroVec
       /\ last'.op = "remove" =>
              /\ last'.result = (last'.id \in Registered)
              /\ DOMAIN pe'.aircrafts = Registered \ {last'.id}
       /\ last'.op \notin {"register", "remove"} =>
              DOMAIN pe'.aircrafts = Registered]_vars

\* one of two registered aircraft has been removed
C23_RemovedOneOfTwo ==
    /\ last.op = "remove"
    /\ last.result
    /\ last.id \notin Registered
    /\ Registered # {}

(***************************************************************************)
(* The update loop of the physics engine, checked on SpecSchedule          *)
(***************************************************************************)
\* C25: from the return of stop() until start() is called again the engine's
\* own scheduling updates no aircraft: stop() leaves the engine not running,
\* every callback still pending after it would change nothing if it ran, and
\* while the engine is not running the aircraft change only by a manual step
\* or by registration and removal.
C25_StoppedStaysStill ==
    [][/\ last'.op = "stop" =>
              /\ ~pe'.isRunning
              /\ \A id \in host'.callbacks :
                     physicsUpdate(pe', [host' EXCEPT !.callbacks = @ \ {id}],
                                   now' + 16).pe = pe'
       /\ (~pe.isRunning \/ last.op = "stop")
              /\ last'.op \notin {"start", "updateStep", "register", "remove"} =>
              pe'.aircrafts = pe.aircrafts]_vars

\* stop() was called while a callback was pending for a registered aircraft
C25_StoppedWhilePending ==
    /\ last.op = "stop"
    /\ last.pending # {}
    /\ host.callbacks = {}
    /\ Registered # {}

(***************************************************************************)
(* The two loops, checked on SpecLoops                                     *)
(***************************************************************************)
\* C26: whatever the order of start() and stop() calls and of callbacks
\* firing, the physics update loop has at most one callback pending and the
\* application main loop has at most one callback pending.
C26_OneLoopEach ==
    /\ Cardinality(host.callbacks) <= 1
    /\ host.mainLoop <= 1

(***************************************************************************)
(* The input handler, checked on SpecInput                                 *)
(***************************************************************************)
\* C27: the pause action toggles in both directions: an update() that finds
\* the pause action just pressed while the handler is paused clears the
\* paused state and hides the main menu and the options menu, as an update()
\* that finds it just pressed while not paused sets the paused state.
C27_PauseToggles ==
    [][last'.op = "inputUpdate"
           /\ isActionJustPressed(input, inputMappings, "pause") =>
           /\ input'.isPaused = ~input.isPaused
           /\ input.isPaused =>
                  gui'.shown \cap {"main-menu", "options-menu"} = {}]_vars

\* the key list an action of the handler has now
currentKeys(action) == inputMappings[input.mappings[action]]

\* C28: resetMappings() restores every action's key list to the original
\* default mapping, whatever remapKey calls came before: after it the
\* defaults are what they were at the start and every action has its
\* default keys.
C28_ResetRestoresDefaults ==
    last.op = "resetMappings" =>
        /\ inputMappings = DEFAULT_MAPPINGS
        /\ \A action \in InputActions :
               currentKeys(action) = DEFAULT_MAPPINGS[action]

\* C30: a keydown on a key that is not held makes every action the key is
\* mapped to just pressed; the action stays so over further key events and
\* no action is just pressed after update(); a key becomes just pressed by
\* no other step than a keydown on it while it is not held, so a repeated
\* keydown on a held key raises nothing, and a key stops being held by a
\* keyup on it only.
C30_JustPressedOnce ==
    [][/\ last'.op = "keydown" /\ last'.key \in DOMAIN input.keyStates
              /\ ~input.keyStates[last'.key].pressed =>
              \A action \in InputActions :
                  last'.key \in KeysOf(currentKeys(action)) =>
                      isActionJustPressed(input', inputMappings', action)
       /\ last'.op \in {"keydown", "keyup"} =>
              \A action \in InputActions :
                  isActionJustPressed(input, inputMappings, action) =>
                      isActionJustPressed(input', inputMappings', action)
       /\ last'.op = "inputUpdate" =>
              \A action \in InputActions :
                  ~isActionJustPressed(input', inputMappings', action)
       /\ \A key \in DOMAIN input.keyStates :
              /\ ~input.keyStates[key].justPressed
                     /\ input'.keyStates[key].justPressed =>
                     /\ last'.op = "keydown"
                     /\ last'.key = key
                     /\ ~input.keyStates[key].pressed
              /\ input.keyStates[key].pressed /\ ~input'.keyStates[key].pressed =>
                     last'.op = "keyup" /\ last'.key = key]_vars

\* a keydown has come for a key that was held over an update: it is held,
\* and neither it nor its action is just pressed
C30_RepeatWhileHeld ==
    /\ last.op = "keydown"
    /\ last.key = "Escape"
    /\ input.keyStates["Escape"].pressed
    /\ ~input.keyStates["Escape"].justPressed
    /\ ~isActionJustPressed(input, inputMappings, "pause")

====
